---- MODULE Spec2Model ----
(***************************************************************************)
(* State-machine model of the semantic matching engine of refdata-hub      *)
(* (api/app/matcher.py): SemanticMatcher.rank and the scorers it chains.   *)
(*                                                                         *)
(* Text is a sequence of one-character strings.  Scores are integers:      *)
(* a raw similarity is counted in units of 1/RawScale, an emitted score    *)
(* (rounded to 4 decimals) in units of 1/Scale4.                           *)
(***************************************************************************)
EXTENDS Integers, Sequences, FiniteSets, TLC

\* ------------------------------------------------------------------ bounds

\* Longest candidate list handed to the matcher.
MaxCands == 2

\* ------------------------------------------------------------ text helpers

\* The absent value of an Optional[str] field (never a text of the program:
\* every character of a text is a one-character string).
NoText == <<"None">>

\* The absent value of an Optional[int] field.
NoInt == -1000

Range(s) == {s[i] : i \in DOMAIN s}

IsSpace(c) == c \in {" ", "\n", "\t"}

IsWordChar(c) == c \in {"a", "b", "c", "A", "B", "C"}

LowerChar(c) ==
    CASE c = "A" -> "a"
      [] c = "B" -> "b"
      [] c = "C" -> "c"
      [] OTHER -> c

\* str.lower / str.casefold on the modelled alphabet.
Casefold(s) == [i \in DOMAIN s |-> LowerChar(s[i])]

RECURSIVE LStrip(_)
LStrip(s) ==
    IF s = <<>> THEN <<>>
    ELSE IF IsSpace(Head(s)) THEN LStrip(Tail(s))
    ELSE s

RECURSIVE RStrip(_)
RStrip(s) ==
    IF s = <<>> THEN <<>>
    ELSE IF IsSpace(s[Len(s)]) THEN RStrip(SubSeq(s, 1, Len(s) - 1))
    ELSE s

\* str.strip()
Strip(s) == RStrip(LStrip(s))

\* Truthiness of an Optional[str]: None and "" are falsy.
Truthy(s) == s # NoText /\ s # <<>>

\* text.replace('-', ' ')
ReplaceHyphen(s) == [i \in DOMAIN s |-> IF s[i] = "-" THEN " " ELSE s[i]]

\* str.split(): the maximal runs of non-whitespace characters, in order.
RECURSIVE SplitFrom(_, _, _)
SplitFrom(s, cur, acc) ==
    IF s = <<>> THEN (IF cur = <<>> THEN acc ELSE Append(acc, cur))
    ELSE IF IsSpace(Head(s))
         THEN SplitFrom(Tail(s), <<>>, IF cur = <<>> THEN acc ELSE Append(acc, cur))
         ELSE SplitFrom(Tail(s), Append(cur, Head(s)), acc)

Split(s) == SplitFrom(s, <<>>, <<>>)

\* SemanticMatcher._tokenize
TokenizeHyphenated(text) == {Casefold(tok) : tok \in Range(Split(text))}

Tokenize(text) == {Casefold(tok) : tok \in Range(Split(ReplaceHyphen(text)))}

\* SemanticMatcher._canonical_as_sentence
CanonicalAsSentence(canonical) ==
    IF Truthy(canonical.description)
    THEN canonical.canonical_label \o <<".", " ">> \o canonical.description
    ELSE canonical.canonical_label

\* The word tokens of TfidfVectorizer's default analyzer: lower-cased maximal
\* runs of word characters, two characters or longer.
RECURSIVE WordRunsFrom(_, _, _)
WordRunsFrom(s, cur, acc) ==
    IF s = <<>> THEN (IF Len(cur) >= 2 THEN acc \cup {cur} ELSE acc)
    ELSE IF IsWordChar(Head(s))
         THEN WordRunsFrom(Tail(s), Append(cur, LowerChar(Head(s))), acc)
         ELSE WordRunsFrom(Tail(s), <<>>, IF Len(cur) >= 2 THEN acc \cup {cur} ELSE acc)

TfidfTerms(s) == WordRunsFrom(s, <<>>, {})

\* The sentences handed to TfidfVectorizer().fit
Sentences(text, cands) ==
    <<text>> \o [i \in DOMAIN cands |-> CanonicalAsSentence(cands[i])]

\* TfidfVectorizer().fit raises ValueError("empty vocabulary") when no
\* sentence holds a term.
VectorizationFails(text, cands) ==
    \A i \in DOMAIN Sentences(text, cands) :
        TfidfTerms(Sentences(text, cands)[i]) = {}

\* ----------------------------------------------------------- score helpers

\* One unit of an emitted score is 1/Scale4: round(score, 4).
Scale4 == 10000

\* One unit of a raw similarity or of an LLM-supplied score is 1/RawScale.
RawScale == 100000

\* round(num/den, 4) in units of 1/Scale4, ties to even, for den > 0.
RoundDiv(num, den) ==
    LET q == num \div den
        r == num % den
    IN  IF 2 * r < den THEN q
        ELSE IF 2 * r > den THEN q + 1
        ELSE IF q % 2 = 0 THEN q ELSE q + 1

\* Clamp without its lower bound: min(1.0, score) alone.
ClampUpperOnly(raw) == IF raw > RawScale THEN RawScale ELSE raw

\* max(0.0, min(1.0, score)) on a raw value in units of 1/RawScale.
Clamp(raw) ==
    IF raw < 0 THEN 0 ELSE IF raw > RawScale THEN RawScale ELSE raw

\* round(score, 4) of a raw value in units of 1/RawScale.
Round4(raw) == RoundDiv(raw * Scale4, RawScale)

\* The value of top_k when the configuration leaves it unset or zero.
DefaultTopK == 5

\* max(1, self.config.top_k or 5)
EffectiveTopK(top_k) ==
    LET k == IF top_k = NoInt \/ top_k = 0 THEN DefaultTopK ELSE top_k
    IN  IF k < 1 THEN 1 ELSE k

\* The insertion of a sort that forgot reverse=True: ascending.
RECURSIVE InsertAsc(_, _)
InsertAsc(sorted, m) ==
    IF sorted = <<>> THEN <<m>>
    ELSE IF Head(sorted).score <= m.score
         THEN <<Head(sorted)>> \o InsertAsc(Tail(sorted), m)
         ELSE <<m>> \o sorted

\* list.sort(key=score, reverse=True): stable, descending.
RECURSIVE InsertDesc(_, _)
InsertDesc(sorted, m) ==
    IF sorted = <<>> THEN <<m>>
    ELSE IF Head(sorted).score >= m.score
         THEN <<Head(sorted)>> \o InsertDesc(Tail(sorted), m)
         ELSE <<m>> \o sorted

RECURSIVE SortDesc(_)
SortDesc(ms) ==
    IF ms = <<>> THEN <<>>
    ELSE InsertDesc(SortDesc(SubSeq(ms, 1, Len(ms) - 1)), ms[Len(ms)])

\* A slice one entry too long: matches[:top_k + 1].
TruncateOneMore(ms, k) == SubSeq(ms, 1, IF Len(ms) < k + 1 THEN Len(ms) ELSE k + 1)

\* matches[:top_k]
Truncate(ms, k) == SubSeq(ms, 1, IF Len(ms) < k THEN Len(ms) ELSE k)

\* MatchCandidate(canonical_id=canonical.id or 0, ..., score=round(score, 4))
MatchCandidate(canonical, score4) ==
    [canonical_id    |-> IF canonical.id = NoInt THEN 0 ELSE canonical.id,
     canonical_label |-> canonical.canonical_label,
     dimension       |-> canonical.dimension,
     description     |-> canonical.description,
     score           |-> score4]

\* The comparison without casefold(): label.strip() == raw_text.strip().
IsExactMatchCaseSensitive(canonical, text) ==
    Strip(canonical.canonical_label) = Strip(text)

\* canonical.canonical_label.strip().casefold() == raw_text.strip().casefold()
IsExactMatch(canonical, text) ==
    Casefold(Strip(canonical.canonical_label)) = Casefold(Strip(text))

\* ------------------------------------------------------------- the scorers

\* The overlap taken over the candidate's tokens instead of the union.
LexicalScoreOverCandidate(text, canonical) ==
    IF IsExactMatch(canonical, text) THEN Scale4
    ELSE IF Tokenize(CanonicalAsSentence(canonical)) = {} THEN 0
    ELSE RoundDiv(Cardinality(Tokenize(text) \cap Tokenize(CanonicalAsSentence(canonical)))
                      * Scale4,
                  Cardinality(Tokenize(CanonicalAsSentence(canonical))))

\* SemanticMatcher._rank_with_lexical, lines 91-95: Jaccard overlap of the two
\* token sets, forced to 1.0 on an exact label match, rounded to 4 decimals.
LexicalScore(text, canonical) ==
    LET raw_tokens == Tokenize(text)
        canonical_tokens == Tokenize(CanonicalAsSentence(canonical))
        overlap == Cardinality(raw_tokens \cap canonical_tokens)
        union == Cardinality(raw_tokens \cup canonical_tokens)
    IN  IF IsExactMatch(canonical, text) THEN Scale4
        ELSE IF union = 0 THEN 0
        ELSE RoundDiv(overlap * Scale4, union)

\* SemanticMatcher._rank_with_lexical, lines 86-104: the candidates loop.
RECURSIVE LexicalCandidates(_, _)
LexicalCandidates(text, cands) ==
    IF cands = <<>> THEN <<>>
    ELSE IF Tokenize(CanonicalAsSentence(Head(cands))) = {}
         THEN LexicalCandidates(text, Tail(cands))
         ELSE <<MatchCandidate(Head(cands), LexicalScore(text, Head(cands)))>>
                  \o LexicalCandidates(text, Tail(cands))

\* SemanticMatcher._rank_with_lexical
RankWithLexical(text, cands, top_k) ==
    IF Tokenize(text) = {} THEN <<>>
    ELSE Truncate(SortDesc(LexicalCandidates(text, cands)), EffectiveTopK(top_k))

\* The clamped similarity without the exact-match override.
EmbeddingScoreNoOverride(text, canonical, sim) == Round4(Clamp(sim))

\* SemanticMatcher._rank_with_embeddings, lines 60-62: the clamped similarity,
\* forced to 1.0 on an exact label match, rounded to 4 decimals.
EmbeddingScore(text, canonical, sim) ==
    IF IsExactMatch(canonical, text) THEN Scale4 ELSE Round4(Clamp(sim))

\* SemanticMatcher._rank_with_embeddings, lines 58-75, for the similarities
\* sims that cosine_similarity returned (one per candidate).
EmbeddingMatches(text, cands, top_k, sims) ==
    Truncate(
        SortDesc([i \in DOMAIN cands |->
                     MatchCandidate(cands[i], EmbeddingScore(text, cands[i], sims[i]))]),
        EffectiveTopK(top_k))

\* What _rank_with_embeddings returns for non-empty candidates: the vector
\* scorer's matches, or the lexical scorer's when vectorization raised.
\* sims is <<>> when vectorization raised.
EmbeddingPath(text, cands, top_k, sims) ==
    IF cands = <<>> THEN <<>>
    ELSE IF VectorizationFails(text, cands) THEN RankWithLexical(text, cands, top_k)
    ELSE EmbeddingMatches(text, cands, top_k, sims)

\* ------------------------------------------------------------- JSON values

(***************************************************************************)
(* A JSON value is a record tagged by t.  A string holds its text as a     *)
(* sequence of lexemes (s); a number holds its value in units of           *)
(* 1/RawScale (n); an object holds its keys and values in document order.  *)
(***************************************************************************)
JNull == [t |-> "null"]
JNaN == [t |-> "nan"]
JBool(b) == [t |-> "bool", b |-> b]
JNum(n) == [t |-> "num", n |-> n]
JStr(s) == [t |-> "str", s |-> s]
JList(items) == [t |-> "list", items |-> items]
JObj(keys, vals) == [t |-> "obj", keys |-> keys, vals |-> vals]

\* An integer JSON number, as the ids of the canonical values are.
JInt(i) == JNum(i * RawScale)

\* dict.get(key) of a JSON object: None (JNull) when absent; a repeated key
\* keeps its last value, as json.loads does.
RECURSIVE LastIndexOf(_, _, _)
LastIndexOf(keys, key, i) ==
    IF i = 0 THEN 0
    ELSE IF keys[i] = key THEN i
    ELSE LastIndexOf(keys, key, i - 1)

HasKey(obj, key) == LastIndexOf(obj.keys, key, Len(obj.keys)) # 0

Get(obj, key) ==
    IF HasKey(obj, key) THEN obj.vals[LastIndexOf(obj.keys, key, Len(obj.keys))]
    ELSE JNull

\* Truthiness of a JSON value in Python: None, False, 0, "", [] and {} are
\* falsy (nan is truthy).
JTruthy(v) ==
    CASE v.t = "null" -> FALSE
      [] v.t = "nan"  -> TRUE
      [] v.t = "bool" -> v.b
      [] v.t = "num"  -> v.n # 0
      [] v.t = "str"  -> v.s # <<>>
      [] v.t = "list" -> v.items # <<>>
      [] v.t = "obj"  -> v.keys # <<>>

\* The number lexemes of the modelled payloads and their values in units of
\* 1/RawScale.
NumLits == {"0", "1", "2", "3", "5", "0.5", "0.91", "0.33", "0.33334", "1.3", "-0.2"}

NumVal(tok) ==
    CASE tok = "0"       -> 0
      [] tok = "1"       -> RawScale
      [] tok = "2"       -> 2 * RawScale
      [] tok = "3"       -> 3 * RawScale
      [] tok = "5"       -> 5 * RawScale
      [] tok = "0.5"     -> 50000
      [] tok = "0.91"    -> 91000
      [] tok = "0.33"    -> 33000
      [] tok = "0.33334" -> 33334
      [] tok = "1.3"     -> 130000
      [] tok = "-0.2"    -> -20000

\* repr of a number: the lexeme of its value.
NumLitOf(n) == CHOOSE tok \in NumLits : NumVal(tok) = n

\* The string lexemes of the modelled payloads (the quoted literal) and the
\* text between the quotes.
StrLits == {"\"id\"", "\"score\"", "\"results\"", "\"foo\"", "\"1\"", "\"0.5\"", "\"abc\""}

StrVal(tok) ==
    CASE tok = "\"id\""      -> <<"id">>
      [] tok = "\"score\""   -> <<"score">>
      [] tok = "\"results\"" -> <<"results">>
      [] tok = "\"foo\""     -> <<"foo">>
      [] tok = "\"1\""       -> <<"1">>
      [] tok = "\"0.5\""     -> <<"0.5">>
      [] tok = "\"abc\""     -> <<"abc">>

\* ------------------------------------------------------------- json.loads

(***************************************************************************)
(* json.loads over a sequence of lexemes.  A parse step returns            *)
(* [ok, v, next]: whether a value was read, the value, and the position    *)
(* after it.                                                               *)
(***************************************************************************)
ParseFail == [ok |-> FALSE, v |-> JNull, next |-> 0]

\* The decoder raised something other than a JSONDecodeError.
ParseRaise == [ok |-> FALSE, v |-> JNull, next |-> -1]

RECURSIVE SkipWs(_, _)
SkipWs(toks, i) ==
    IF i <= Len(toks) /\ IsSpace(toks[i]) THEN SkipWs(toks, i + 1) ELSE i

\* A container being read: a list with the items read so far, or an object
\* with the keys and values read so far (the key of the value being read is
\* the last of keys).
ListFrame(items) == [kind |-> "list", items |-> items, keys |-> <<>>, vals |-> <<>>]
ObjFrame(keys, vals) == [kind |-> "obj", items |-> <<>>, keys |-> keys, vals |-> vals]

\* The scalar a lexeme stands for.
\* An integer literal of more digits than int() converts (4300 unless the
\* interpreter is told otherwise): the decoder's int(integer) raises a
\* ValueError that is no JSONDecodeError.
HugeInt == "99999...(5000 digits)"

IsScalar(tok) == tok \in NumLits \cup StrLits \cup {"null", "true", "false", "NaN"}

Scalar(tok) ==
    CASE tok \in NumLits -> JNum(NumVal(tok))
      [] tok \in StrLits -> JStr(StrVal(tok))
      [] tok = "null"    -> JNull
      [] tok = "true"    -> JBool(TRUE)
      [] tok = "false"   -> JBool(FALSE)
      [] tok = "NaN"     -> JNaN

\* Whether toks holds, from i on, a key and its colon (after whitespace).
KeyAt(toks, i) ==
    LET k == SkipWs(toks, i)
        c == SkipWs(toks, k + 1)
    IN  k <= Len(toks) /\ toks[k] \in StrLits /\ c <= Len(toks) /\ toks[c] = ":"

\* The position of the colon of the key at toks[i] (after whitespace).
ColonAt(toks, i) == SkipWs(toks, SkipWs(toks, i) + 1)

\* The key at toks[i] (after whitespace).
KeyOf(toks, i) == StrVal(toks[SkipWs(toks, i)])

Top(stack) == stack[Len(stack)]

Pop(stack) == SubSeq(stack, 1, Len(stack) - 1)

\* Whether toks[i] (after whitespace) is the lexeme tok.
NextIs(toks, i, tok) == SkipWs(toks, i) <= Len(toks) /\ toks[SkipWs(toks, i)] = tok

\* The decoder's state: the position i, the containers being read (innermost
\* last), and whether a value v has just been read and ends before toks[i]
\* (have) or a value is expected at toks[i].  status is "run" until the
\* outermost value is read ("ok") or the text is found malformed ("fail").
ParseState(status, i, stack, have, v) ==
    [status |-> status, i |-> i, stack |-> stack, have |-> have, v |-> v]

ParseStop(status, st) == [st EXCEPT !.status = status]

\* One step of the decoder.
ParseStep(toks, st) ==
    LET i == SkipWs(toks, st.i)
        stack == st.stack
        v == st.v
    IN  IF st.have /\ stack = <<>> THEN ParseStop("ok", st)
        ELSE IF i > Len(toks) THEN ParseStop("fail", st)
        ELSE IF st.have /\ Top(stack).kind = "list"
             THEN IF toks[i] = "]"
                  THEN ParseState("run", i + 1, Pop(stack), TRUE,
                                  JList(Append(Top(stack).items, v)))
                  ELSE IF toks[i] = ","
                  THEN ParseState("run", i + 1,
                                  Append(Pop(stack), ListFrame(Append(Top(stack).items, v))),
                                  FALSE, JNull)
                  ELSE ParseStop("fail", st)
        ELSE IF st.have
             THEN IF toks[i] = "}"
                  THEN ParseState("run", i + 1, Pop(stack), TRUE,
                                  JObj(Top(stack).keys, Append(Top(stack).vals, v)))
                  ELSE IF toks[i] = "," /\ KeyAt(toks, i + 1)
                  THEN ParseState("run", ColonAt(toks, i + 1) + 1,
                                  Append(Pop(stack),
                                         ObjFrame(Append(Top(stack).keys, KeyOf(toks, i + 1)),
                                                  Append(Top(stack).vals, v))),
                                  FALSE, JNull)
                  ELSE ParseStop("fail", st)
        ELSE IF toks[i] = HugeInt THEN ParseStop("raise", st)
        ELSE IF IsScalar(toks[i])
             THEN ParseState("run", i + 1, stack, TRUE, Scalar(toks[i]))
        ELSE IF toks[i] = "["
             THEN IF NextIs(toks, i + 1, "]")
                  THEN ParseState("run", SkipWs(toks, i + 1) + 1, stack, TRUE, JList(<<>>))
                  ELSE ParseState("run", i + 1, Append(stack, ListFrame(<<>>)), FALSE, JNull)
        ELSE IF toks[i] = "{"
             THEN IF NextIs(toks, i + 1, "}")
                  THEN ParseState("run", SkipWs(toks, i + 1) + 1, stack, TRUE,
                                  JObj(<<>>, <<>>))
                  ELSE IF KeyAt(toks, i + 1)
                  THEN ParseState("run", ColonAt(toks, i + 1) + 1,
                                  Append(stack, ObjFrame(<<KeyOf(toks, i + 1)>>, <<>>)),
                                  FALSE, JNull)
                  ELSE ParseStop("fail", st)
        ELSE ParseStop("fail", st)

\* The decoder's loop.
RECURSIVE ParseLoop(_, _)
ParseLoop(toks, st) ==
    IF st.status # "run" THEN st ELSE ParseLoop(toks, ParseStep(toks, st))

\* scan_once: [ok, v, next] for the text from toks[i] on.
Parsed(st) ==
    IF st.status = "ok" THEN [ok |-> TRUE, v |-> st.v, next |-> st.i]
    ELSE IF st.status = "raise" THEN ParseRaise
    ELSE ParseFail

ParseFrom(toks, i) == Parsed(ParseLoop(toks, ParseState("run", i, <<>>, FALSE, JNull)))

\* One JSON value starting at toks[i] (after whitespace).
ParseValue(toks, i) == ParseFrom(toks, i)

\* json.loads(text): a value followed by nothing but whitespace, or a
\* JSONDecodeError (ok = FALSE).
Whole(toks, r) ==
    IF r = ParseRaise \/ (r.ok /\ SkipWs(toks, r.next) > Len(toks)) THEN r ELSE ParseFail

JsonLoads(toks) == Whole(toks, ParseValue(toks, 1))

\* ------------------------------------------------ the external ranking client

\* text.strip of the fence character.  The lexeme "BT" is one backtick.
RECURSIVE LStripTicks(_)
LStripTicks(s) ==
    IF s # <<>> /\ Head(s) = "BT" THEN LStripTicks(Tail(s)) ELSE s

RECURSIVE RStripTicks(_)
RStripTicks(s) ==
    IF s # <<>> /\ s[Len(s)] = "BT" THEN RStripTicks(SubSeq(s, 1, Len(s) - 1)) ELSE s

StripTicks(s) == RStripTicks(LStripTicks(s))

\* text.startswith(three backticks)
StartsWithFence(s) == Len(s) >= 3 /\ s[1] = "BT" /\ s[2] = "BT" /\ s[3] = "BT"

\* text.find(tok) and text.rfind(tok) as 1-based positions, 0 when absent.
RECURSIVE FindFrom(_, _, _)
FindFrom(s, tok, i) ==
    IF i > Len(s) THEN 0
    ELSE IF s[i] = tok THEN i
    ELSE FindFrom(s, tok, i + 1)

Find(s, tok) == FindFrom(s, tok, 1)

RECURSIVE RFindFrom(_, _, _)
RFindFrom(s, tok, i) ==
    IF i < 1 THEN 0
    ELSE IF s[i] = tok THEN i
    ELSE RFindFrom(s, tok, i - 1)

\* The first occurrence taken where the last is meant.
RFindAsFind(s, tok) == FindFrom(s, tok, 1)

RFind(s, tok) == RFindFrom(s, tok, Len(s))

\* SemanticMatcher._parse_llm_json, lines 270-274: the fence is stripped and
\* the text after the first newline kept (the whole text when it has none).
AfterFirstLine(stripped, nl) ==
    Strip(IF nl = 0 THEN stripped ELSE SubSeq(stripped, nl + 1, Len(stripped)))

FenceBody(stripped) == AfterFirstLine(stripped, Find(stripped, "\n"))

Unfence(text) ==
    IF StartsWithFence(text) THEN FenceBody(StripTicks(text)) ELSE text

\* SemanticMatcher._parse_llm_json, lines 276-289: a direct parse, else a
\* parse of the text from the first "[" to the last "]".
Snippet(text, start, end) ==
    IF start = 0 \/ end = 0 \/ end <= start THEN ParseFail
    ELSE JsonLoads(SubSeq(text, start, end))

\* except json.JSONDecodeError: any other exception of the direct parse
\* leaves the method, the snippet untried.
DirectOr(direct, snippet) ==
    IF direct.ok \/ direct = ParseRaise THEN direct ELSE snippet

LoadsOrSnippet(text) ==
    DirectOr(JsonLoads(text), Snippet(text, Find(text, "["), RFind(text, "]")))

\* [item for item in data if isinstance(item, dict)]
RECURSIVE OnlyDicts(_)
OnlyDicts(items) ==
    IF items = <<>> THEN <<>>
    ELSE IF Head(items).t = "obj" THEN <<Head(items)>> \o OnlyDicts(Tail(items))
    ELSE OnlyDicts(Tail(items))

\* SemanticMatcher._parse_llm_json for a str content.
\* SemanticMatcher._parse_llm_json, lines 291-302: the rankings in the
\* parsed data.
RankingsIn(data) ==
    IF data.t = "obj"
    THEN IF Get(data, <<"results">>).t = "list"
         THEN OnlyDicts(Get(data, <<"results">>).items)
         ELSE <<>>
    ELSE IF data.t = "list" THEN OnlyDicts(data.items)
    ELSE <<>>

\* The rankings in what the parse gave, none when it failed.
RankingsOf(loaded) == IF loaded.ok THEN RankingsIn(loaded.v) ELSE <<>>

\* SemanticMatcher._parse_llm_json, lines 268-289, for a stripped text.
ParseStripped(text) ==
    IF text = <<>> THEN <<>> ELSE RankingsOf(LoadsOrSnippet(Unfence(text)))

\* SemanticMatcher._parse_llm_json for a str content.
ParseLlmJson(content) == ParseStripped(Strip(content))

\* Whether json.loads raises past the except clauses of lines 278 and 287.
ParseRaises(content) ==
    Strip(content) # <<>> /\ LoadsOrSnippet(Unfence(Strip(content))) = ParseRaise

\* float(x) of a str: the value of a numeric text, NoInt on ValueError.
FloatOfStr(s) ==
    LET text == Strip(s)
    IN  IF Len(text) = 1 /\ text[1] \in NumLits THEN NumVal(text[1]) ELSE NoInt

\* float(item.get("score", 0)) followed by max(0.0, min(1.0, score)): the
\* clamped score in units of 1/RawScale, or NoInt when float() raises
\* TypeError or ValueError.  min(1.0, nan) is 1.0.
CoercedScore(item) ==
    LET v == Get(item, <<"score">>)
    IN  IF ~HasKey(item, <<"score">>) THEN 0
        ELSE CASE v.t = "num"  -> Clamp(v.n)
               [] v.t = "bool" -> IF v.b THEN RawScale ELSE 0
               [] v.t = "nan"  -> RawScale
               [] v.t = "str"  -> IF FloatOfStr(v.s) = NoInt THEN NoInt
                                  ELSE Clamp(FloatOfStr(v.s))
               [] OTHER        -> NoInt

\* Whether a JSON value used as a dict key equals the integer id (1 == 1.0 ==
\* True in Python; a str, None or nan equals no id).
KeyEqualsId(v, id) ==
    CASE v.t = "num"  -> v.n = id * RawScale
      [] v.t = "bool" -> (IF v.b THEN 1 ELSE 0) = id
      [] OTHER        -> FALSE

\* lookup.get(item.get("id")): the index of the candidate, 0 when no candidate
\* has that id; of candidates sharing an id the dict keeps the last.
RECURSIVE LookupIndex(_, _, _)
LookupIndex(cands, v, i) ==
    IF i = 0 THEN 0
    ELSE IF cands[i].id # NoInt /\ KeyEqualsId(v, cands[i].id) THEN i
    ELSE LookupIndex(cands, v, i - 1)

\* A list or dict is unhashable: dict.get raises TypeError on it.
Unhashable(v) == v.t \in {"list", "obj"}

\* SemanticMatcher._build_matches_from_rankings, lines 241-259: what one
\* ranking entry adds to the results: nothing when it is dropped.
EntryMatches(cands, item) ==
    LET idx == LookupIndex(cands, Get(item, <<"id">>), Len(cands))
    IN  IF item.t # "obj" \/ idx = 0 \/ CoercedScore(item) = NoInt THEN <<>>
        ELSE <<MatchCandidate(cands[idx], Round4(CoercedScore(item)))>>

\* lookup.get(item.get("id")) raises TypeError on this entry.
EntryRaises(item) == item.t = "obj" /\ Unhashable(Get(item, <<"id">>))

\* SemanticMatcher._build_matches_from_rankings, lines 239-259: the loop over
\* the rankings.  Returns [raised, matches]; raised when dict.get raised.
RECURSIVE RankingResults(_, _, _)
RankingResults(cands, rankings, acc) ==
    IF rankings = <<>> THEN [raised |-> FALSE, matches |-> acc]
    ELSE IF EntryRaises(Head(rankings)) THEN [raised |-> TRUE, matches |-> <<>>]
    ELSE RankingResults(cands, Tail(rankings), acc \o EntryMatches(cands, Head(rankings)))

\* SemanticMatcher._build_matches_from_rankings
SortedAndTruncated(r, top_k) ==
    IF r.raised THEN r
    ELSE [raised |-> FALSE,
          matches |-> Truncate(SortDesc(r.matches), EffectiveTopK(top_k))]

BuildMatchesFromRankings(cands, rankings, top_k) ==
    IF rankings = <<>> THEN [raised |-> FALSE, matches |-> <<>>]
    ELSE SortedAndTruncated(RankingResults(cands, rankings, <<>>), top_k)

\* A piece of output text among the values still to be written.
Lit(s) == [t |-> "lit", s |-> s]

\* items with sep between every two of them.
Interleave(items, sep) ==
    IF items = <<>> THEN <<>>
    ELSE [n \in 1..(2 * Len(items) - 1) |->
             IF n % 2 = 1 THEN items[(n + 1) \div 2] ELSE sep]

\* The members of a dict as repr writes them: 'key': value, comma-separated.
Members(keys, vals) ==
    [n \in 1..(2 * Len(keys)) |->
        IF n % 2 = 1
        THEN Lit((IF n > 1 THEN <<",", " ">> ELSE <<>>)
                     \o <<"'">> \o keys[(n + 1) \div 2] \o <<"'", ":", " ">>)
        ELSE vals[n \div 2]]

\* What repr writes for a value that holds no other.
AtomRepr(v) ==
    CASE v.t = "lit"  -> v.s
      [] v.t = "null" -> <<"None">>
      [] v.t = "nan"  -> <<"nan">>
      [] v.t = "bool" -> <<IF v.b THEN "True" ELSE "False">>
      [] v.t = "num"  -> <<NumLitOf(v.n)>>
      [] v.t = "str"  -> <<"'">> \o v.s \o <<"'">>
      [] OTHER        -> <<>>

\* A list or dict opened into its brackets and the values it holds.
Opened(v) ==
    CASE v.t = "list" -> <<Lit(<<"[">>)>> \o Interleave(v.items, Lit(<<",", " ">>))
                             \o <<Lit(<<"]">>)>>
      [] v.t = "obj"  -> <<Lit(<<"{">>)>> \o Members(v.keys, v.vals) \o <<Lit(<<"}">>)>>
      [] OTHER        -> <<>>

\* repr of the values of work, one after the other, appended to out.
RECURSIVE PyReprAll(_, _)
PyReprAll(work, out) ==
    IF work = <<>> THEN out
    ELSE PyReprAll(Opened(Head(work)) \o Tail(work), out \o AtomRepr(Head(work)))

\* str(value): a str is itself, anything else its Python repr.
PyRepr(v) == PyReprAll(<<v>>, <<>>)

PyStr(v) == IF v.t = "str" THEN v.s ELSE PyRepr(v)

\* ------------------------------------------------------- the configuration

\* The absent value of an Optional[str] configuration field.
Unset == "<unset>"

\* (self.config.llm_mode or "online").lower()
LlmMode(cfg) ==
    LET mode == IF cfg.llm_mode \in {Unset, ""} THEN "online" ELSE cfg.llm_mode
    IN  CASE mode \in {"offline", "OFFLINE", "Offline"} -> "offline"
          [] mode \in {"online", "ONLINE", "Online"}    -> "online"
          [] OTHER                                      -> mode

\* "http://ollama:11434", the base of the local endpoint when none is set.
DefaultOllamaBase == <<"http://ollama:11434">>

\* "llama3", the local model when none is set.
DefaultOllamaModel == "llama3"

\* The value of openai.api_base before any call overrides it.
DefaultOpenaiBase == <<"https://api.openai.com/v1">>

\* str.rstrip("/") on a URL held as lexemes, a trailing "/" being its own.
RECURSIVE RStripSlash(_)
RStripSlash(url) ==
    IF url # <<>> /\ url[Len(url)] = "/"
    THEN RStripSlash(SubSeq(url, 1, Len(url) - 1))
    ELSE url

\* SemanticMatcher._rank_with_ollama, lines 163-176: the request it posts.
OllamaRequest(cfg) ==
    [transport |-> "ollama",
     base      |-> RStripSlash(IF cfg.llm_api_base \in {NoText, <<>>}
                               THEN DefaultOllamaBase ELSE cfg.llm_api_base),
     key       |-> Unset,
     model     |-> IF cfg.llm_model \in {Unset, ""}
                   THEN DefaultOllamaModel ELSE cfg.llm_model]

\* SemanticMatcher._rank_with_openai, lines 134-151: the request it sends
\* carries the module-level credential and base URL, as they are after this
\* call's assignments.
OpenaiRequest(cfg, api_base) ==
    [transport |-> "openai",
     base      |-> IF cfg.llm_api_base \in {NoText, <<>>}
                   THEN api_base ELSE cfg.llm_api_base,
     key       |-> cfg.llm_api_key,
     model     |-> cfg.llm_model]

\* content = response["choices"][0]["message"]["content"]: [ok, v], ok FALSE
\* when a subscript raises (KeyError, IndexError, TypeError).
OpenaiContent(response) ==
    LET fail == [ok |-> FALSE, v |-> JNull]
    IN  IF response.t # "obj" \/ ~HasKey(response, <<"choices">>) THEN fail
        ELSE LET choices == Get(response, <<"choices">>)
             IN  IF choices.t # "list" \/ choices.items = <<>> THEN fail
                 ELSE LET first == choices.items[1]
                      IN  IF first.t # "obj" \/ ~HasKey(first, <<"message">>) THEN fail
                          ELSE LET message == Get(first, <<"message">>)
                               IN  IF message.t # "obj" \/ ~HasKey(message, <<"content">>)
                                   THEN fail
                                   ELSE [ok |-> TRUE, v |-> Get(message, <<"content">>)]

\* SemanticMatcher._rank_with_ollama, lines 187-192: the content taken from
\* the response body.
OllamaContent(data) ==
    IF data.t # "obj" THEN JStr(<<>>)
    ELSE IF Get(data, <<"message">>).t = "obj"
         THEN IF HasKey(Get(data, <<"message">>), <<"content">>)
              THEN Get(Get(data, <<"message">>), <<"content">>)
              ELSE JStr(<<>>)
    ELSE IF HasKey(data, <<"response">>) THEN JStr(PyStr(Get(data, <<"response">>)))
    ELSE JStr(<<>>)

\* rankings = self._parse_llm_json(content); return
\* self._build_matches_from_rankings(rankings): [raised, matches], raised
\* naming the exception that escapes ("none" when none does).  A content that
\* is no str has no strip(): (content or "").strip() raises AttributeError.
Built(built) ==
    IF built.raised THEN [raised |-> "TypeError", matches |-> <<>>]
    ELSE [raised |-> "none", matches |-> built.matches]

ParseAndBuild(content, cands, top_k) ==
    IF ~JTruthy(content) THEN [raised |-> "none", matches |-> <<>>]
    ELSE IF content.t # "str" THEN [raised |-> "AttributeError", matches |-> <<>>]
    ELSE IF ParseRaises(content.s) THEN [raised |-> "ValueError", matches |-> <<>>]
    ELSE Built(BuildMatchesFromRankings(cands, ParseLlmJson(content.s), top_k))

\* ------------------------------------------------------------- the inputs

\* CanonicalValue(id, dimension, canonical_label, description)
Canonical(id, label, description) ==
    [id |-> id, dimension |-> "marital_status",
     canonical_label |-> label, description |-> description]

\* The canonical values a caller may hand to the matcher.
CanonicalPool ==
    { Canonical(1, <<"A">>, NoText),
      Canonical(2, <<"a", " ", "b">>, NoText),
      Canonical(2, <<"a", "-", "a">>, NoText),
      Canonical(1, <<"A", "b">>, NoText),
      Canonical(2, <<"a">>, <<"b">>),
      Canonical(NoInt, <<"-">>, NoText) }

\* The identifier is unique among the candidates that have one.
UniqueIds(cands) ==
    \A i, j \in DOMAIN cands :
        i # j => cands[i] # cands[j]
                 /\ (cands[i].id = NoInt \/ cands[i].id # cands[j].id)

\* A candidate list one longer than the default top_k.
LongList ==
    << Canonical(1, <<"a">>, NoText),
       Canonical(2, <<"A", " ", "b">>, NoText),
       Canonical(3, <<"b">>, NoText),
       Canonical(4, <<"a", "-", "b">>, NoText),
       Canonical(5, <<"c">>, <<"a">>),
       Canonical(6, <<"b", " ", "c">>, NoText) >>

CandidateLists ==
    UNION { {cands \in [1..n -> CanonicalPool] : UniqueIds(cands)} : n \in 0..MaxCands }
        \cup {LongList}

\* The raw texts a caller may ask about.
RawTexts ==
    { <<>>, <<" ">>, <<"-">>, <<" ", "a", " ">>, <<"b", " ", "a">>, <<"a", "b">> }

\* The values of SystemConfig.top_k: unset, negative, zero, positive.
TopKs == {NoInt, -1, 0, 2}

SystemConfig(backend, mode, model, base, key, top_k) ==
    [matcher_backend |-> backend, llm_mode |-> mode, llm_model |-> model,
     llm_api_base |-> base, llm_api_key |-> key, top_k |-> top_k]

Configs ==
    UNION { { SystemConfig("embedding", Unset, "gpt-3.5-turbo", NoText, Unset, k),
              SystemConfig("llm", "Offline", Unset, <<"http://gpu:11434", "/">>, Unset, k),
              SystemConfig("llm", "online", "gpt-4", <<"https://proxy/v1">>, "sk-1", k),
              SystemConfig("llm", Unset, "gpt-3.5-turbo", NoText, "sk-2", k),
              SystemConfig("llm", "online", "gpt-4", NoText, Unset, k),
              SystemConfig("llm", Unset, Unset, NoText, "sk-1", k) } : k \in TopKs }

\* The cosine similarities the vectorizer may hand back, in units of
\* 1/RawScale: below 0, just under 1 (0.99996 rounds to 1.0), above 1.
RawSims == {-20000, 99996, 130000}

\* json.dumps of one ranking entry and of lists of them, as lexemes.
Entry(id, score) ==
    <<"{", "\"id\"", ":", " ">> \o id \o <<",", " ", "\"score\"", ":", " ">> \o score \o <<"}">>

EntryNoScore(id) == <<"{", "\"id\"", ":", " ">> \o id \o <<"}">>

Array1(e) == <<"[">> \o e \o <<"]">>

Array2(e1, e2) == <<"[">> \o e1 \o <<",", " ">> \o e2 \o <<"]">>

Fenced(body) ==
    <<"BT", "BT", "BT", "json", "\n">> \o body \o <<"\n", "BT", "BT", "BT">>

InProse(body) == <<"Sure", ",", " ", "here", ":", " ">> \o body \o <<" ", "thanks">>

\* The message contents a ranking service may answer with (str contents).
TextContents ==
    { Array2(Entry(<<"2">>, <<"0.91">>), Entry(<<"1">>, <<"0.33">>)),
      Array2(Entry(<<"1">>, <<"1.3">>), Entry(<<"2">>, <<"-0.2">>)),
      Array2(Entry(<<"2">>, <<"0.33334">>), Entry(<<"1">>, <<"0.33">>)),
      Array2(Entry(<<"1">>, <<"0.5">>), Entry(<<"1">>, <<"0.91">>)),
      Array2(Entry(<<"1">>, <<"\"abc\"">>), Entry(<<"2">>, <<"\"0.5\"">>)),
      Array2(Entry(<<"1">>, <<"null">>), Entry(<<"2">>, <<"NaN">>)),
      Array2(<<"1">>, EntryNoScore(<<"1">>)),
      Array2(Entry(<<"2">>, <<"0.5">>), Entry(<<"[", "1", "]">>, <<"0.91">>)),
      Array1(Entry(<<"{", "}">>, <<"0.5">>)),
      Array1(Entry(<<"\"1\"">>, <<"0.5">>)),
      Array1(Entry(<<"3">>, <<"0.5">>)),
      Array1(<<>>),
      Fenced(Array1(Entry(<<"1">>, <<"0.5">>))),
      InProse(Array1(Entry(<<"2">>, <<"0.5">>))),
      <<"{", "\"results\"", ":", " ">> \o Array1(Entry(<<"1">>, <<"0.5">>)) \o <<"}">>,
      <<"{", "\"foo\"", ":", " ", "1", "}">>,
      <<"5">>,
      <<"Sure", " ", "thanks">>,
      <<" ">> }

\* The values a message content may hold: a str, or any other JSON type.
Contents ==
    { JStr(c) : c \in TextContents }
        \cup { JNull, JStr(<<>>), JInt(5), JList(<<JInt(1)>>) }

\* What the local endpoint may answer: the request fails in transport, the
\* status is not 2xx, the body is not JSON, or the body is a JSON value.
OllamaBodies ==
    { JObj(<<<<"message">>>>, <<JObj(<<<<"content">>>>, <<c>>)>>) : c \in Contents }
        \cup { JObj(<<<<"message">>>>, <<JObj(<<>>, <<>>)>>),
               JObj(<<<<"response">>>>,
                    <<JStr(Array1(Entry(<<"1">>, <<"0.5">>)))>>),
               JObj(<<<<"message">>, <<"response">>>>,
                    <<JStr(<<"hi">>), JList(<<JObj(<<<<"id">>>>, <<JInt(1)>>)>>)>>),
               JObj(<<<<"response">>>>, <<JInt(5)>>),
               JObj(<<>>, <<>>),
               JList(<<JInt(1)>>) }

OllamaOutcomes ==
    { [kind |-> k, data |-> JNull] : k \in {"transport_error", "status_error", "body_not_json"} }
        \cup { [kind |-> "ok", data |-> d] : d \in OllamaBodies }

\* What the hosted API may answer: the package is not installed, the call
\* raises, or a response object comes back.
OpenaiResponse(content) ==
    JObj(<<<<"choices">>>>, <<JList(<<JObj(<<<<"message">>>>,
                                       <<JObj(<<<<"content">>>>, <<content>>)>>)>>)>>)

\* The contents the hosted API is seen to answer with.
OpenaiContents ==
    { JStr(Array2(Entry(<<"2">>, <<"0.91">>), Entry(<<"1">>, <<"0.33">>))),
      JStr(Array2(Entry(<<"1">>, <<"-0.2">>), Entry(<<"2">>, <<"1.3">>))),
      JStr(Array1(Entry(<<"{", "}">>, <<"0.5">>))),
      JStr(<<"Sure", " ", "thanks">>),
      JNull,
      JInt(5) }

OpenaiOutcomes ==
    { [kind |-> k, data |-> JNull] : k \in {"import_error", "api_error"} }
        \cup { [kind |-> "ok", data |-> OpenaiResponse(c)] : c \in OpenaiContents }
        \cup { [kind |-> "ok", data |-> JObj(<<<<"choices">>>>, <<JList(<<>>)>>)] }

\* ---------------------------------------------------------------- the state

VARIABLES
    pc,                \* where the rank call stands
    raw_text,          \* rank's argument
    canonical_values,  \* SemanticMatcher.canonical_values
    config,            \* SemanticMatcher.config
    response,          \* what the ranking service answered (while the client runs)
    llm_rankings,      \* rank's local: what _rank_with_llm returned
    scores,            \* what cosine_similarity returned (<<>> when not computed)
    result,            \* what rank returned
    raised,            \* the exception rank raised to its caller, "none" if none
    requests,          \* the outbound requests of this call, in order
    invoked,           \* the scorers this call has entered
    openai_api_key,    \* the module-level openai.api_key
    openai_api_base,   \* the module-level openai.api_base
    parsed,            \* what _parse_llm_json returned to its caller
    systemconfig,      \* the rows of table systemconfig, in id order
    dimensions,        \* the codes of the rows of table dimension
    canonicalvalue,    \* the rows of table canonicalvalue, in id order
    rawvalue,          \* the rows of table rawvalue, in id order
    sourceconnection,  \* the ids of the rows of table sourceconnection
    sourcefieldmapping,\* the rows of table sourcefieldmapping, in id order
    sourcesample,      \* the rows of table sourcesample, in id order
    valuemapping,      \* the rows of table valuemapping, in id order
    reply,             \* the last operation on the store and its answer
    engine,            \* the engine of the running call of the connection service
    service            \* the running call of the connection service

\* The state of a rank call, and the state outside it.
matcher_vars == <<pc, raw_text, canonical_values, config, response, llm_rankings,
                  scores, result, raised, requests, invoked, openai_api_key,
                  openai_api_base>>

\* The tables of the reference library.
tables == <<systemconfig, dimensions, canonicalvalue, rawvalue>>

\* The tables of the source connections.
source_tables == <<sourceconnection, sourcefieldmapping, sourcesample, valuemapping>>

\* The call of the connection service and its engine.
service_vars == <<engine, service>>

store_vars == <<parsed, tables, source_tables, reply, service_vars>>

vars == <<matcher_vars, store_vars>>

\* No operation on the store yet.
NoReply == [op |-> "none", request |-> <<>>, status |-> 0, body |-> <<>>]

\* No call of the connection service is running.
NoService ==
    [op |-> "none", at |-> "idle", schema |-> Unset, schemas |-> <<>>, results |-> {},
     failure |-> "", error |-> [type |-> "none", message |-> ""]]

\* Nothing parsed yet, an empty database.
StoreInit ==
    /\ parsed = <<>>
    /\ systemconfig = <<>>
    /\ dimensions = {}
    /\ canonicalvalue = <<>>
    /\ rawvalue = <<>>
    /\ sourceconnection = {}
    /\ sourcefieldmapping = <<>>
    /\ sourcesample = <<>>
    /\ valuemapping = <<>>
    /\ reply = NoReply
    /\ engine = "none"
    /\ service = NoService

NoResponse == [kind |-> "none", data |-> JNull]

\* No rank call yet.
MatcherInit ==
    /\ pc = "idle"
    /\ raw_text = <<>>
    /\ canonical_values = <<>>
    /\ config = SystemConfig("embedding", Unset, "gpt-3.5-turbo", NoText, Unset, DefaultTopK)
    /\ response = NoResponse
    /\ llm_rankings = <<>>
    /\ scores = <<>>
    /\ result = <<>>
    /\ raised = "none"
    /\ requests = <<>>
    /\ invoked = {}
    /\ openai_api_key = Unset
    /\ openai_api_base = DefaultOpenaiBase

Init == MatcherInit /\ StoreInit

\* SemanticMatcher(config, canonical_values).rank(raw_text) is called.
Call ==
    /\ pc = "idle"
    /\ UNCHANGED store_vars
    /\ \E text \in RawTexts, cands \in CandidateLists, cfg \in Configs :
          /\ raw_text' = text
          /\ canonical_values' = cands
          /\ config' = cfg
    /\ pc' = "rank"
    /\ UNCHANGED <<response, llm_rankings, scores, result, raised, requests, invoked,
                   openai_api_key, openai_api_base>>

\* Where rank goes first: lines 29-37.
RankEntry(text, cfg) ==
    IF Strip(text) = <<>> THEN "done"
    ELSE IF cfg.matcher_backend = "llm" THEN "llm"
    ELSE "embeddings"

\* SemanticMatcher.rank, lines 29-33.
Rank ==
    /\ pc = "rank"
    /\ UNCHANGED store_vars
    /\ pc' = RankEntry(raw_text, config)
    /\ result' = <<>>
    /\ UNCHANGED <<raw_text, canonical_values, config, response, llm_rankings, scores,
                   raised, requests, invoked, openai_api_key, openai_api_base>>

\* _rank_with_llm without its check of the candidates.
LlmEntryUnguarded(cands, cfg) ==
    IF LlmMode(cfg) = "offline" THEN "ollama" ELSE "openai"

\* Where _rank_with_llm goes: lines 113-119.
LlmEntry(cands, cfg) ==
    IF cands = <<>> THEN "llm_return"
    ELSE IF LlmMode(cfg) = "offline" THEN "ollama"
    ELSE "openai"

\* SemanticMatcher._rank_with_llm
RankWithLlm ==
    /\ pc = "llm"
    /\ UNCHANGED store_vars
    /\ invoked' = invoked \cup {"llm"}
    /\ llm_rankings' = <<>>
    /\ pc' = LlmEntry(canonical_values, config)
    /\ UNCHANGED <<raw_text, canonical_values, config, response, scores, result, raised,
                   requests, openai_api_key, openai_api_base>>

\* The guard of _rank_with_openai asking for the API key only.
HasCredentialsKeyOnly(cfg) == cfg.llm_api_key \notin {Unset, ""}

\* Whether _rank_with_openai has what it needs to call out: line 124.
HasCredentials(cfg) ==
    cfg.llm_api_key \notin {Unset, ""} /\ cfg.llm_model \notin {Unset, ""}

\* What the client returns for the content it extracted, or the exception
\* that escapes it.
ClientOutcome(out) ==
    /\ llm_rankings' = out.matches
    /\ raised' = out.raised
    /\ pc' = IF out.raised = "none" THEN "llm_return" ELSE "raised"

ClientReturn(content) ==
    ClientOutcome(ParseAndBuild(content, canonical_values, config.top_k))

\* SemanticMatcher._rank_with_openai
RankWithOpenai ==
    /\ pc = "openai"
    /\ UNCHANGED store_vars
    /\ \/ /\ ~HasCredentials(config)
          /\ llm_rankings' = <<>>
          /\ pc' = "llm_return"
          /\ UNCHANGED <<response, raised, requests, openai_api_key, openai_api_base>>
       \/ /\ HasCredentials(config)
          /\ \E outcome \in OpenaiOutcomes :
                /\ response' = outcome
                /\ IF outcome.kind = "import_error"
                   THEN /\ llm_rankings' = <<>>
                        /\ pc' = "llm_return"
                        /\ UNCHANGED <<raised, requests, openai_api_key, openai_api_base>>
                   ELSE /\ openai_api_key' = config.llm_api_key
                        /\ openai_api_base' =
                               IF config.llm_api_base \in {NoText, <<>>}
                               THEN openai_api_base ELSE config.llm_api_base
                        /\ requests' = Append(requests, OpenaiRequest(config, openai_api_base))
                        /\ IF outcome.kind = "api_error" \/ ~OpenaiContent(outcome.data).ok
                           THEN /\ llm_rankings' = <<>>
                                /\ pc' = "llm_return"
                                /\ UNCHANGED raised
                           ELSE ClientReturn(OpenaiContent(outcome.data).v)
    /\ UNCHANGED <<raw_text, canonical_values, config, scores, result, invoked>>

\* _rank_with_ollama posting its request once more after a failed attempt.
RankWithOllamaRetrying ==
    /\ pc = "ollama"
    /\ UNCHANGED store_vars
    /\ \E outcome \in OllamaOutcomes :
          /\ response' = outcome
          /\ requests' = Append(requests, OllamaRequest(config))
          /\ IF outcome.kind # "ok"
             THEN /\ llm_rankings' = <<>>
                  /\ pc' = IF requests = <<>> THEN "ollama" ELSE "llm_return"
                  /\ UNCHANGED raised
             ELSE ClientReturn(OllamaContent(outcome.data))
    /\ UNCHANGED <<raw_text, canonical_values, config, scores, result, invoked,
                   openai_api_key, openai_api_base>>

\* SemanticMatcher._rank_with_ollama
RankWithOllama ==
    /\ pc = "ollama"
    /\ UNCHANGED store_vars
    /\ \E outcome \in OllamaOutcomes :
          /\ response' = outcome
          /\ requests' = Append(requests, OllamaRequest(config))
          /\ IF outcome.kind # "ok"
             THEN /\ llm_rankings' = <<>>
                  /\ pc' = "llm_return"
                  /\ UNCHANGED raised
             ELSE ClientReturn(OllamaContent(outcome.data))
    /\ UNCHANGED <<raw_text, canonical_values, config, scores, result, invoked,
                   openai_api_key, openai_api_base>>

\* rank running the embedding path whatever the client returned.
NeverReturnsLlmRankings(rankings) == FALSE

\* rank returning whatever the client returned, an empty list included.
AlwaysReturnsLlmRankings(rankings) == TRUE

\* Whether rank returns the client's rankings as they are: line 34.
ReturnsLlmRankings(rankings) == rankings # <<>>

\* A vectorization failure left to propagate.
VectorizationErrorPropagates == "raised"

\* Where _rank_with_embeddings goes when vectorization raised: lines 52-56.
OnVectorizationError == "lexical"

\* SemanticMatcher.rank, lines 34-37: back from _rank_with_llm.
RankAfterLlm ==
    /\ pc = "llm_return"
    /\ UNCHANGED store_vars
    /\ response' = NoResponse
    /\ IF ReturnsLlmRankings(llm_rankings)
       THEN /\ result' = llm_rankings
            /\ pc' = "done"
       ELSE /\ pc' = "embeddings"
            /\ UNCHANGED result
    /\ UNCHANGED <<raw_text, canonical_values, config, llm_rankings, scores, raised,
                   requests, invoked, openai_api_key, openai_api_base>>

\* SemanticMatcher._rank_with_embeddings
RankWithEmbeddings ==
    /\ pc = "embeddings"
    /\ UNCHANGED store_vars
    /\ \/ /\ canonical_values = <<>>
          /\ result' = <<>>
          /\ pc' = "done"
          /\ UNCHANGED <<scores, invoked>>
       \/ /\ canonical_values # <<>>
          /\ VectorizationFails(raw_text, canonical_values)
          /\ invoked' = invoked \cup {"vector"}
          /\ pc' = OnVectorizationError
          /\ UNCHANGED <<scores, result>>
       \/ /\ canonical_values # <<>>
          /\ ~VectorizationFails(raw_text, canonical_values)
          /\ invoked' = invoked \cup {"vector"}
          /\ \E sims \in [DOMAIN canonical_values -> RawSims] :
                /\ scores' = sims
                /\ result' = EmbeddingMatches(raw_text, canonical_values, config.top_k, sims)
          /\ pc' = "done"
    /\ UNCHANGED <<raw_text, canonical_values, config, response, llm_rankings, raised,
                   requests, openai_api_key, openai_api_base>>

\* SemanticMatcher._rank_with_lexical, called from the except branch.
RankWithLexicalStep ==
    /\ pc = "lexical"
    /\ UNCHANGED store_vars
    /\ invoked' = invoked \cup {"lexical"}
    /\ result' = RankWithLexical(raw_text, canonical_values, config.top_k)
    /\ pc' = "done"
    /\ UNCHANGED <<raw_text, canonical_values, config, response, llm_rankings, scores,
                   raised, requests, openai_api_key, openai_api_base>>

Next ==
    \/ Call
    \/ Rank
    \/ RankWithLlm
    \/ RankWithOpenai
    \/ RankWithOllama
    \/ RankAfterLlm
    \/ RankWithEmbeddings
    \/ RankWithLexicalStep

Spec == Init /\ [][Next]_vars

\* ------------------------------------------- one rank call after another

\* rank has returned or raised and the caller goes on to its next call: the
\* matcher and its locals are gone, the attributes of the openai module stay.
RankReturns ==
    /\ pc \in {"done", "raised"}
    /\ pc' = "idle"
    /\ raw_text' = <<>>
    /\ canonical_values' = <<>>
    /\ response' = NoResponse
    /\ llm_rankings' = <<>>
    /\ scores' = <<>>
    /\ result' = <<>>
    /\ raised' = "none"
    /\ requests' = <<>>
    /\ invoked' = {}
    /\ UNCHANGED <<config, openai_api_key, openai_api_base, store_vars>>

SequentialNext == Next \/ RankReturns

SequentialSpec == Init /\ [][SequentialNext]_vars

\* ------------------------------------------- the lexical scorer on its own

\* The texts handed to the lexical scorer, as queries and as labels.
LexicalTexts ==
    { <<"a">>, <<"A">>, <<" ", "a">>, <<"a", " ", "b">>, <<"b", " ", "a">>,
      <<"a", "-", "b">>, <<"a", ".", " ", "b">>, <<"a", "b">>, <<"c">>,
      <<"-">>, <<" ">> }

\* The candidates handed to the lexical scorer on its own, with and without
\* description.
LexicalPool ==
    { Canonical(1, label, description) :
        label \in LexicalTexts, description \in {NoText, <<>>, <<"b">>} }

\* SemanticMatcher(config, [canonical])._rank_with_lexical(raw_text) is called.
LexicalInit ==
    /\ pc = "lexical"
    /\ raw_text \in LexicalTexts
    /\ canonical_values \in {<<canonical>> : canonical \in LexicalPool}
    /\ config \in {SystemConfig("embedding", Unset, "gpt-3.5-turbo", NoText, Unset, k) :
                       k \in TopKs}
    /\ response = NoResponse
    /\ llm_rankings = <<>>
    /\ scores = <<>>
    /\ result = <<>>
    /\ raised = "none"
    /\ requests = <<>>
    /\ invoked = {}
    /\ openai_api_key = Unset
    /\ openai_api_base = DefaultOpenaiBase
    /\ StoreInit

LexicalSpec == LexicalInit /\ [][RankWithLexicalStep]_vars

\* ------------------------------------------- the response parser on its own

\* JSON arrays of objects, as the text a ranking service writes.
ObjectArrays ==
    { <<"[", "]">>,
      Array1(Entry(<<"1">>, <<"0.5">>)),
      Array1(EntryNoScore(<<"2">>)),
      Array1(Entry(<<"[", "1", "]">>, <<"0.91">>)),
      Array1(Entry(<<"1">>, <<"\"abc\"">>)),
      Array2(Entry(<<"2">>, <<"0.91">>), Entry(<<"1">>, <<"0.33">>)),
      Array2(Entry(<<"1">>, <<"null">>), Entry(<<"2">>, <<"NaN">>)),
      Array2(EntryNoScore(<<"1">>), Entry(<<"[", "]">>, <<"1.3">>)) }

\* The language tags a fence may carry, none included.
FenceTags == { <<>>, <<"json">> }

\* Fence marker, tag, newline, body, newline, fence marker.
FencedAs(tag, body) ==
    <<"BT", "BT", "BT">> \o tag \o <<"\n">> \o body \o <<"\n", "BT", "BT", "BT">>

\* Prose without square brackets, as <<what precedes, what follows>> the array.
Proses ==
    { << <<"Sure", ",", " ", "here", ":", " ">>, <<" ", "thanks">> >>,
      << <<>>, <<" ", "thanks">> >>,
      << <<"Sure", " ">>, <<>> >>,
      << <<"Sure", "\n">>, <<"\n", "thanks">> >>,
      << <<"{", "}", " ">>, <<" ", "BT">> >>,
      << <<" ", "BT", "BT", "BT">>, <<"\n", "thanks">> >>,
      << <<"BT", "BT", "BT", "json", "\n", "here", ":", " ">>, <<"\n", "BT", "BT", "BT">> >> }

\* The array with the prose around it.
Around(prose, body) == prose[1] \o body \o prose[2]

\* The contents handed to the parser on its own.
WrappedContents ==
    { FencedAs(tag, body) : tag \in FenceTags, body \in ObjectArrays }
        \cup { Around(prose, body) : prose \in Proses, body \in ObjectArrays }

\* A JSON object of one member, as text.
Member(key, value) == <<"{", key, ":", " ">> \o value \o <<"}">>

\* Contents of every kind of JSON value: lists with elements that are no
\* objects, objects with and without a "results" list, scalars, text that is
\* no JSON with and without a bracketed part, and an integer too long to
\* convert.
ValueContents ==
    { <<"[", "1", ",", " ">> \o EntryNoScore(<<"1">>) \o <<",", " ", "\"abc\"", ",", " ">>
          \o Entry(<<"2">>, <<"0.91">>) \o <<",", " ", "null", "]">>,
      <<"[", "1", ",", " ", "[", "]", ",", " ", "true", "]">>,
      Member("\"results\"", Array2(Entry(<<"1">>, <<"0.5">>), <<"5">>)),
      Member("\"results\"", Array2(<<"\"foo\"">>, EntryNoScore(<<"2">>))),
      Member("\"results\"", <<"\"abc\"">>),
      Member("\"results\"", EntryNoScore(<<"1">>)),
      Member("\"results\"", <<"null">>),
      Member("\"foo\"", <<"5">>),
      <<"{", "}">>,
      <<"5">>, <<"\"abc\"">>, <<"null">>, <<"true">>, <<"NaN">>,
      <<>>, <<" ", "\n">>,
      <<"Sure", " ", "thanks">>,
      <<"[", "1", ",", " ">>,
      <<"]", " ", "[">>,
      <<"Sure", " ", "[", "here", "]", " ", "thanks">>,
      <<"Sure", " ", "[", "1", ",", " ">> \o EntryNoScore(<<"1">>) \o <<"]", " ", "thanks">>,
      <<"Sure", " ">> \o Member("\"foo\"", <<"[", "1", "]">>) \o <<" ", "thanks">>,
      <<"Sure", " ">> \o Member("\"results\"", Array1(EntryNoScore(<<"1">>))),
      <<HugeInt>>,
      Array1(EntryNoScore(<<HugeInt>>)),
      <<"Sure", " ", "[", HugeInt, "]", " ", "thanks">> }

\* SemanticMatcher()._parse_llm_json(content) is about to be called.
ParseInit ==
    /\ pc = "parse"
    /\ response \in { [kind |-> "ok", data |-> JStr(content)] :
                          content \in WrappedContents \cup ValueContents }
    /\ raw_text = <<>>
    /\ canonical_values = <<>>
    /\ config = SystemConfig("llm", "offline", "llama3", NoText, Unset, DefaultTopK)
    /\ llm_rankings = <<>>
    /\ scores = <<>>
    /\ result = <<>>
    /\ raised = "none"
    /\ requests = <<>>
    /\ invoked = {}
    /\ openai_api_key = Unset
    /\ openai_api_base = DefaultOpenaiBase
    /\ StoreInit

\* rankings = self._parse_llm_json(content)
ParseLlmJsonStep ==
    /\ pc = "parse"
    /\ parsed' = ParseLlmJson(response.data.s)
    /\ raised' = IF ParseRaises(response.data.s) THEN "ValueError" ELSE "none"
    /\ pc' = IF ParseRaises(response.data.s) THEN "raised" ELSE "parsed"
    /\ UNCHANGED <<raw_text, canonical_values, config, response, llm_rankings, scores,
                   result, requests, invoked, openai_api_key, openai_api_base,
                   tables, source_tables, reply, service_vars>>

ParseSpec == ParseInit /\ [][ParseLlmJsonStep]_vars

\* ------------------------------------------------ the reference-data store

\* Most RawValue rows the store is let to hold.
MaxRaw == 2

\* Settings(): the application settings, match_threshold in units of 1/Scale4.
Settings ==
    [default_dimension |-> "general", match_threshold |-> 6000,
     matcher_backend |-> "embedding", llm_model |-> "gpt-3.5-turbo",
     llm_api_base |-> NoText, top_k |-> DefaultTopK]

\* ensure_system_config, lines 21-29: the row built from the settings.
ConfigFrom(settings) ==
    SystemConfig(settings.matcher_backend, Unset, settings.llm_model,
                 settings.llm_api_base, Unset, settings.top_k)
        @@ [default_dimension |-> settings.default_dimension,
            match_threshold |-> settings.match_threshold]

\* CanonicalValue(id, dimension, canonical_label, description) as a row.
CanonicalRow(id, dimension, label, description) ==
    [Canonical(id, label, description) EXCEPT !.dimension = dimension]

\* DEFAULT_DIMENSIONS: the seeded codes.
DefaultDimensions == {"general", "marital_status", "education", "employment_status"}

\* DEFAULT_CANONICAL_VALUES: two values in each of three dimensions and none
\* in "general".  A label is written in the modelled alphabet: "ab" stands
\* for Single, "ba" for Married.
DefaultCanonicalValues ==
    << CanonicalRow(1, "marital_status", <<"a", "b">>, <<"c", "c">>),
       CanonicalRow(2, "marital_status", <<"b", "a">>, <<"c", "a">>),
       CanonicalRow(3, "education", <<"a", "c">>, <<"c", "b">>),
       CanonicalRow(4, "education", <<"c", "a">>, <<"b", "b">>),
       CanonicalRow(5, "employment_status", <<"b", "c">>, NoText),
       CanonicalRow(6, "employment_status", <<"c", "b">>, NoText) >>

\* The databases init_db may find: empty, already seeded, holding a legacy
\* library, without the default dimension, or with the configuration row
\* deleted.
ReferenceInit ==
    /\ MatcherInit
    /\ parsed = <<>>
    /\ systemconfig \in
           { <<>>, <<ConfigFrom(Settings)>>,
             <<ConfigFrom([Settings EXCEPT !.match_threshold = 7000, !.top_k = 2])>>,
             <<ConfigFrom([Settings EXCEPT !.default_dimension = "marital_status"])>> }
    /\ dimensions \in { {}, DefaultDimensions, {"marital_status", "education"} }
    /\ canonicalvalue \in
           { <<>>, DefaultCanonicalValues,
             << CanonicalRow(1, "general", <<"a">>, NoText),
                CanonicalRow(2, "general", <<"a", " ", "b">>, NoText) >>,
             << CanonicalRow(1, "education", <<"a", "b">>, NoText) >> }
    /\ rawvalue = <<>>
    /\ sourceconnection = {}
    /\ sourcefieldmapping = <<>>
    /\ sourcesample = <<>>
    /\ valuemapping = <<>>
    /\ reply = NoReply
    /\ engine = "none"
    /\ service = NoService

\* seed_database adding the default canonical values on every run.
InitDbSeedingEveryRun ==
    /\ pc = "idle"
    /\ systemconfig' =
           IF systemconfig # <<>> THEN systemconfig ELSE <<ConfigFrom(Settings)>>
    /\ dimensions' = IF dimensions # {} THEN dimensions ELSE DefaultDimensions
    /\ canonicalvalue' =
           IF Len(canonicalvalue) > 6 THEN canonicalvalue
           ELSE canonicalvalue \o DefaultCanonicalValues
    /\ reply' = [NoReply EXCEPT
                     !.op = IF reply.op \in {"init_db", "init_db_again"}
                            THEN "init_db_again" ELSE "init_db"]
    /\ UNCHANGED <<matcher_vars, parsed, service_vars, rawvalue, source_tables>>

\* init_db: seed_database, lines 98-132 (create_all and the column migration
\* leave the rows as they are).
InitDb ==
    /\ pc = "idle"
    /\ systemconfig' =
           IF systemconfig # <<>> THEN systemconfig ELSE <<ConfigFrom(Settings)>>
    /\ dimensions' = IF dimensions # {} THEN dimensions ELSE DefaultDimensions
    /\ canonicalvalue' =
           IF canonicalvalue # <<>> THEN canonicalvalue ELSE DefaultCanonicalValues
    /\ reply' = [NoReply EXCEPT
                     !.op = IF reply.op \in {"init_db", "init_db_again"}
                            THEN "init_db_again" ELSE "init_db"]
    /\ UNCHANGED <<matcher_vars, parsed, service_vars, rawvalue, source_tables>>

\* SystemConfigRead(...): routes/config.py, lines 20-29.
SystemConfigRead(cfg) ==
    [default_dimension |-> cfg.default_dimension,
     match_threshold   |-> cfg.match_threshold,
     matcher_backend   |-> cfg.matcher_backend,
     llm_model         |-> cfg.llm_model,
     llm_api_base      |-> cfg.llm_api_base,
     top_k             |-> cfg.top_k,
     llm_api_key_set   |-> cfg.llm_api_key \notin {Unset, ""}]

\* An HTTPException with this status code.
HttpError(op, request, status) ==
    [op |-> op, request |-> request, status |-> status, body |-> <<>>]

\* GET /api/config: read_config
ReadConfig ==
    /\ pc = "idle"
    /\ reply' = IF systemconfig = <<>>
                THEN HttpError("read_config", <<>>, 500)
                ELSE [op |-> "read_config", request |-> <<>>, status |-> 200,
                      body |-> SystemConfigRead(systemconfig[1])]
    /\ UNCHANGED <<matcher_vars, parsed, service_vars, tables, source_tables>>

\* The raw texts and the dimensions a MatchRequest carries (Unset: none).
ProposeTexts == { <<"a", "b">>, <<"A", "b">>, <<"a">>, <<" ">> }

ProposeDimensions == { Unset, "general", "marital_status", "education", "nowhere" }

\* The cosine similarities the vectorizer may hand back to propose_match, in
\* units of 1/RawScale.
StoreSims == {20000, 70000}

\* select(CanonicalValue).where(CanonicalValue.dimension == code).all()
CanonicalValuesOf(code) == SelectSeq(canonicalvalue, LAMBDA c : c.dimension = code)

\* matcher.rank(raw_text) under the embedding backend, for the similarities
\* sims that cosine_similarity returned.
RankOf(text, cfg, cands, sims) ==
    IF Strip(text) = <<>> THEN <<>> ELSE EmbeddingPath(text, cands, cfg.top_k, sims)

\* The filter keeping only the scores above the threshold.
FilteredStrictly(ranked, threshold) ==
    SelectSeq(ranked, LAMBDA match : match.score > threshold)

\* [match for match in ranked if match.score >= config.match_threshold]
Filtered(ranked, threshold) == SelectSeq(ranked, LAMBDA match : match.score >= threshold)

\* propose_match, lines 531-536: the RawValue row.
RawValue(code, text, filtered) ==
    [dimension |-> code,
     raw_text  |-> text,
     status    |-> IF filtered # <<>> THEN "suggested" ELSE "pending",
     proposed_canonical_id |-> IF filtered # <<>> THEN filtered[1].canonical_id ELSE NoInt]

\* propose_match raising an HTTPException: nothing is written.
ProposeFails(request, status) ==
    /\ reply' = HttpError("propose_match", request, status)
    /\ UNCHANGED <<matcher_vars, parsed, service_vars, tables, source_tables>>

\* propose_match, lines 527-543: rank, filter, persist, answer.
ProposeReturns(request, cfg, code, cands, ranked, filtered) ==
    /\ raw_text' = request.raw_text
    /\ canonical_values' = cands
    /\ config' = cfg
    /\ result' = ranked
    /\ rawvalue' = Append(rawvalue, RawValue(code, request.raw_text, filtered))
    /\ reply' = [op |-> "propose_match", request |-> request, status |-> 200,
                 body |-> [raw_text |-> request.raw_text, dimension |-> code,
                           matches |-> filtered]]
    /\ UNCHANGED <<pc, response, llm_rankings, scores, raised, requests, invoked,
                   openai_api_key, openai_api_base, parsed, service_vars, systemconfig,
                   dimensions,
                   canonicalvalue, source_tables>>

ProposeWith(request, cfg, code, cands) ==
    \E sims \in [DOMAIN cands -> StoreSims] :
        ProposeReturns(request, cfg, code, cands,
                       RankOf(request.raw_text, cfg, cands, sims),
                       Filtered(RankOf(request.raw_text, cfg, cands, sims),
                                cfg.match_threshold))

\* propose_match, lines 518-525: the fallback to the default dimension.
ProposeIn(request, cfg, code, cands) ==
    IF cands = <<>> /\ code # cfg.default_dimension
    THEN IF cfg.default_dimension \notin dimensions
         THEN ProposeFails(request, 404)
         ELSE ProposeWith(request, cfg, cfg.default_dimension,
                          CanonicalValuesOf(cfg.default_dimension))
    ELSE ProposeWith(request, cfg, code, cands)

\* propose_match, lines 507-516: require_dimension and the candidates.
ProposeFor(request, cfg, code) ==
    IF code \notin dimensions THEN ProposeFails(request, 404)
    ELSE ProposeIn(request, cfg, code, CanonicalValuesOf(code))

\* POST /api/reference/propose: propose_match
ProposeMatch ==
    /\ pc = "idle"
    /\ Len(rawvalue) < MaxRaw
    /\ \E text \in ProposeTexts, dimension \in ProposeDimensions :
          IF systemconfig = <<>>
          THEN ProposeFails([raw_text |-> text, dimension |-> dimension], 500)
          ELSE ProposeFor([raw_text |-> text, dimension |-> dimension], systemconfig[1],
                          IF dimension \notin {Unset, ""} THEN dimension
                          ELSE systemconfig[1].default_dimension)

ReferenceNext == InitDb \/ ReadConfig \/ ProposeMatch

ReferenceSpec == ReferenceInit /\ [][ReferenceNext]_vars

\* ------------------------------------------------- the source connections

\* SourceSample(...) as a row; last_seen_at counts days.
SourceSample(id, connection_id, table, field, dimension, raw_value, count, seen) ==
    [id |-> id, source_connection_id |-> connection_id, source_table |-> table,
     source_field |-> field, dimension |-> dimension, raw_value |-> raw_value,
     occurrence_count |-> count, last_seen_at |-> seen]

\* SourceFieldMapping(...) as a row.
SourceFieldMapping(connection_id, source_table, source_field, ref_dimension) ==
    [source_connection_id |-> connection_id, source_table |-> source_table,
     source_field |-> source_field, ref_dimension |-> ref_dimension]

\* key = (sample.source_table, sample.source_field, sample.raw_value)
SampleKey(sample) == <<sample.source_table, sample.source_field, sample.raw_value>>

\* An absent or empty string, which Python reads as false.
Falsy(value) == value \in {Unset, ""}

\* list_samples, lines 481-487: the rows of the connection, narrowed by the
\* filters that were given.
SamplesOf(connection_id, source_table, source_field) ==
    SelectSeq(sourcesample,
              LAMBDA sample :
                  /\ sample.source_connection_id = connection_id
                  /\ Falsy(source_table) \/ sample.source_table = source_table
                  /\ Falsy(source_field) \/ sample.source_field = source_field)

\* The orders in which the database may hand over rows: rows with the same
\* key are tied under the ORDER BY of lines 489-491.
Orders(rows) ==
    { order \in [DOMAIN rows -> DOMAIN rows] :
          \A i, j \in DOMAIN rows : order[i] = order[j] => i = j }

\* The merge of a further row that leaves occurrence_count alone.
MergedWithoutCount(existing, sample) ==
    [existing EXCEPT
        !.dimension = IF ~Falsy(sample.dimension) /\ Falsy(@)
                      THEN sample.dimension ELSE @,
        !.last_seen_at = IF sample.last_seen_at > @ THEN sample.last_seen_at ELSE @]

\* list_samples, lines 503-507: a further row of a key already seen.
Merged(existing, sample) ==
    [existing EXCEPT
        !.occurrence_count = @ + sample.occurrence_count,
        !.dimension = IF ~Falsy(sample.dimension) /\ Falsy(@)
                      THEN sample.dimension ELSE @,
        !.last_seen_at = IF sample.last_seen_at > @ THEN sample.last_seen_at ELSE @]

\* list_samples, lines 496-507: one turn of the loop over the rows.
AggregatedWith(aggregated, sample) ==
    IF \E i \in DOMAIN aggregated : SampleKey(aggregated[i]) = SampleKey(sample)
    THEN [i \in DOMAIN aggregated |->
              IF SampleKey(aggregated[i]) = SampleKey(sample)
              THEN Merged(aggregated[i], sample) ELSE aggregated[i]]
    ELSE Append(aggregated, sample)

\* The dict aggregated after the first n rows, its values in insertion order.
RECURSIVE Aggregated(_, _, _)
Aggregated(samples, order, n) ==
    IF n = 0 THEN <<>>
    ELSE AggregatedWith(Aggregated(samples, order, n - 1), samples[order[n]])

\* One step of a stable sort on occurrence_count, largest first.
InsertByCount(sorted, item) ==
    LET k == Cardinality({ i \in DOMAIN sorted :
                               sorted[i].occurrence_count >= item.occurrence_count })
    IN SubSeq(sorted, 1, k) \o <<item>> \o SubSeq(sorted, k + 1, Len(sorted))

\* sorted(..., key=occurrence_count, reverse=True); list_samples breaks ties
\* by raw_value.lower(), which is left to the order the rows came in.
RECURSIVE ByCount(_)
ByCount(items) ==
    IF items = <<>> THEN <<>>
    ELSE InsertByCount(ByCount(SubSeq(items, 1, Len(items) - 1)), items[Len(items)])

\* list_samples for a connection that exists.
ListSamplesOf(request, samples) ==
    \E order \in Orders(samples) :
        reply' = [op |-> "list_samples", request |-> request, status |-> 200,
                  body |-> ByCount(Aggregated(samples, order, Len(samples)))]

\* The connections a request may name: 3 is not stored.
ConnectionIds == {1, 3}

\* GET /source/connections/{connection_id}/samples: list_samples
ListSamples ==
    /\ pc = "idle"
    /\ \E connection_id \in ConnectionIds, source_table \in {Unset, "t"},
          source_field \in {Unset, "f"} :
           LET request == [connection_id |-> connection_id,
                           source_table |-> source_table,
                           source_field |-> source_field]
           IN IF connection_id \notin sourceconnection
              THEN reply' = HttpError("list_samples", request, 404)
              ELSE ListSamplesOf(request,
                                 SamplesOf(connection_id, source_table, source_field))
    /\ UNCHANGED <<matcher_vars, parsed, service_vars, tables, source_tables>>

\* ValueMapping(...) as a row; confidence in units of 1/Scale4, NoInt for None.
ValueMapping(connection_id, table, field, raw_value, canonical_id, status, confidence) ==
    [source_connection_id |-> connection_id, source_table |-> table,
     source_field |-> field, raw_value |-> raw_value,
     canonical_id |-> canonical_id, status |-> status, confidence |-> confidence]

\* The rows of valuemapping with a key, oldest first.
MappingsOf(connection_id, source_table, source_field, raw_value) ==
    SelectSeq(valuemapping,
              LAMBDA vm :
                  /\ vm.source_connection_id = connection_id
                  /\ vm.source_table = source_table
                  /\ vm.source_field = source_field
                  /\ vm.raw_value = raw_value)

\* _suggestions_for_samples, lines 602-606: the label of a mapped value.
\* canonical_lookup holds the canonical values whose id a mapping names.
CanonicalLabelOf(canonical_id) ==
    IF canonical_id # 0 /\ \E n \in DOMAIN canonicalvalue :
                               canonicalvalue[n].id = canonical_id
    THEN canonicalvalue[CHOOSE n \in DOMAIN canonicalvalue :
                            canonicalvalue[n].id = canonical_id].canonical_label
    ELSE <<"Mapped canonical value">>

\* _record_matched_preview, lines 572-577: a raw value already in the
\* accumulator.
MatchedAgain(existing, sample, canonical_label, match_type, confidence) ==
    [existing EXCEPT
        !.occurrence_count = @ + sample.occurrence_count,
        !.confidence = IF confidence = NoInt THEN @
                       ELSE IF @ = NoInt THEN (IF confidence < 0 THEN 0 ELSE confidence)
                       ELSE IF @ < confidence THEN confidence ELSE @,
        !.match_type = IF @ = "semantic" /\ match_type = "mapping"
                       THEN match_type ELSE @,
        !.canonical_label = IF existing.match_type = "semantic" /\ match_type = "mapping"
                            THEN canonical_label ELSE @]

\* _record_matched_preview
RecordMatchedPreview(accumulator, sample, canonical_label, match_type, confidence) ==
    IF \E i \in DOMAIN accumulator : accumulator[i].raw_value = sample.raw_value
    THEN [i \in DOMAIN accumulator |->
              IF accumulator[i].raw_value = sample.raw_value
              THEN MatchedAgain(accumulator[i], sample, canonical_label, match_type,
                                confidence)
              ELSE accumulator[i]]
    ELSE Append(accumulator,
                [raw_value |-> sample.raw_value,
                 occurrence_count |-> sample.occurrence_count,
                 canonical_label |-> canonical_label,
                 match_type |-> match_type,
                 confidence |-> confidence])

\* A sample counted as matched.
Matched(found, sample, canonical_label, match_type, confidence) ==
    [found EXCEPT
        !.matched_count = @ + sample.occurrence_count,
        !.matched = RecordMatchedPreview(@, sample, canonical_label, match_type,
                                         confidence)]

\* _suggestions_for_samples, lines 630-640: a sample left unmatched, with the
\* candidates at or above max(threshold * 0.75, 0.2).
Unmatched(found, sample, ranked, threshold) ==
    [found EXCEPT
        !.unmatched =
            Append(@, [raw_value |-> sample.raw_value,
                       occurrence_count |-> sample.occurrence_count,
                       suggestions |->
                           Truncate(SelectSeq(ranked,
                                              LAMBDA match :
                                                  /\ 4 * match.score >= 3 * threshold
                                                  /\ 5 * match.score >= Scale4),
                                    3)])]

\* The loop body with a semantic score deciding for every sample, mapped or
\* not.
SuggestionForUnmapped(found, sample, mappings, ranked, threshold) ==
    IF ranked # <<>> /\ ranked[1].score >= threshold
    THEN Matched(found, sample, ranked[1].canonical_label, "semantic", ranked[1].score)
    ELSE Unmatched(found, sample, ranked, threshold)

\* _suggestions_for_samples, lines 600-640: the loop body for one sample;
\* mappings are the value mappings with its key, the last of them being the one
\* the dict mapped_values keeps.
SuggestionFor(found, sample, mappings, ranked, threshold) ==
    IF mappings # <<>>
    THEN Matched(found, sample,
                 CanonicalLabelOf(mappings[Len(mappings)].canonical_id), "mapping",
                 mappings[Len(mappings)].confidence)
    ELSE IF ranked # <<>> /\ ranked[1].score >= threshold
    THEN Matched(found, sample, ranked[1].canonical_label, "semantic", ranked[1].score)
    ELSE Unmatched(found, sample, ranked, threshold)

\* _suggestions_for_samples over the first n rows of sourcesample, taking the
\* rows of the field mapping; sims[n] are the similarities cosine_similarity
\* returns for row n.
RECURSIVE SuggestionsForSamples(_, _, _, _)
SuggestionsForSamples(mapping, cfg, sims, n) ==
    IF n = 0 THEN [matched_count |-> 0, unmatched |-> <<>>, matched |-> <<>>]
    ELSE IF /\ sourcesample[n].source_connection_id = mapping.source_connection_id
            /\ sourcesample[n].source_table = mapping.source_table
            /\ sourcesample[n].source_field = mapping.source_field
    THEN SuggestionFor(SuggestionsForSamples(mapping, cfg, sims, n - 1),
                       sourcesample[n],
                       MappingsOf(mapping.source_connection_id, mapping.source_table,
                                  mapping.source_field, sourcesample[n].raw_value),
                       RankOf(sourcesample[n].raw_value, cfg,
                              CanonicalValuesOf(mapping.ref_dimension), sims[n]),
                       cfg.match_threshold)
    ELSE SuggestionsForSamples(mapping, cfg, sims, n - 1)

\* sum(sample.occurrence_count for sample in samples)
RECURSIVE SumCounts(_)
SumCounts(samples) ==
    IF samples = <<>> THEN 0
    ELSE samples[1].occurrence_count + SumCounts(Tail(samples))

\* top_unmatched and top_matched hold at most this many values.
PreviewLimit == 10

\* compute_match_statistics, lines 700-713: the statistics of one field mapping.
FieldMatchStats(mapping, total, found) ==
    [source_table |-> mapping.source_table,
     source_field |-> mapping.source_field,
     ref_dimension |-> mapping.ref_dimension,
     total_values |-> total,
     matched_values |-> found.matched_count,
     unmatched_values |-> IF total - found.matched_count > 0
                          THEN total - found.matched_count ELSE 0,
     top_unmatched |-> Truncate(ByCount(found.unmatched), PreviewLimit),
     top_matched |-> Truncate(ByCount(found.matched), PreviewLimit)]

\* select(SourceFieldMapping).where(source_connection_id == connection.id)
FieldMappingsOf(connection_id) ==
    SelectSeq(sourcefieldmapping,
              LAMBDA mapping : mapping.source_connection_id = connection_id)

\* The similarities the embedding model may give the candidates of a sample.
SourceSims == { <<50000, 20000>>, <<70000, 50000>> }

\* list_unmatched_values, lines 770-781: the records of one field mapping.
UnmatchedRecords(mapping, unmatched) ==
    [i \in DOMAIN unmatched |->
         [source_table |-> mapping.source_table,
          source_field |-> mapping.source_field,
          ref_dimension |-> mapping.ref_dimension,
          raw_value |-> unmatched[i].raw_value,
          occurrence_count |-> unmatched[i].occurrence_count,
          suggestions |-> unmatched[i].suggestions]]

\* The answers of match-stats and of unmatched over the first n field mappings.
RECURSIVE MatchStatistics(_, _, _, _)
MatchStatistics(mappings, cfg, sims, n) ==
    IF n = 0 THEN <<>>
    ELSE Append(MatchStatistics(mappings, cfg, sims, n - 1),
                FieldMatchStats(mappings[n],
                                SumCounts(SamplesOf(mappings[n].source_connection_id,
                                                    mappings[n].source_table,
                                                    mappings[n].source_field)),
                                SuggestionsForSamples(mappings[n], cfg, sims,
                                                      Len(sourcesample))))

RECURSIVE UnmatchedValues(_, _, _, _)
UnmatchedValues(mappings, cfg, sims, n) ==
    IF n = 0 THEN <<>>
    ELSE UnmatchedValues(mappings, cfg, sims, n - 1)
         \o UnmatchedRecords(mappings[n],
                             SuggestionsForSamples(mappings[n], cfg, sims,
                                                   Len(sourcesample)).unmatched)

\* The checks both queries start with: _require_connection, then _get_config.
QueryFails(op, request) ==
    IF request.connection_id \notin sourceconnection
    THEN reply' = HttpError(op, request, 404)
    ELSE reply' = HttpError(op, request, 500)

\* GET /source/connections/{connection_id}/match-stats: compute_match_statistics
ComputeMatchStatistics ==
    /\ pc = "idle"
    /\ \E connection_id \in ConnectionIds :
           IF connection_id \notin sourceconnection \/ systemconfig = <<>>
           THEN QueryFails("match_stats", [connection_id |-> connection_id])
           ELSE \E sims \in [DOMAIN sourcesample -> SourceSims] :
                    reply' = [op |-> "match_stats",
                              request |-> [connection_id |-> connection_id],
                              status |-> 200,
                              body |-> MatchStatistics(FieldMappingsOf(connection_id),
                                                       systemconfig[1], sims,
                                                       Len(FieldMappingsOf(connection_id)))]
    /\ UNCHANGED <<matcher_vars, parsed, service_vars, tables, source_tables>>

\* GET /source/connections/{connection_id}/unmatched: list_unmatched_values
ListUnmatchedValues ==
    /\ pc = "idle"
    /\ \E connection_id \in ConnectionIds :
           IF connection_id \notin sourceconnection \/ systemconfig = <<>>
           THEN QueryFails("unmatched", [connection_id |-> connection_id])
           ELSE \E sims \in [DOMAIN sourcesample -> SourceSims] :
                    reply' = [op |-> "unmatched",
                              request |-> [connection_id |-> connection_id],
                              status |-> 200,
                              body |-> ByCount(UnmatchedValues(
                                                   FieldMappingsOf(connection_id),
                                                   systemconfig[1], sims,
                                                   Len(FieldMappingsOf(connection_id))))]
    /\ UNCHANGED <<matcher_vars, parsed, service_vars, tables, source_tables>>

\* Most ValueMapping rows the store is let to hold.
MaxMappings == 2

\* POST /source/connections/{connection_id}/value-mappings:
\* create_value_mapping, which adds a row whether or not the key is mapped.
CreateValueMapping ==
    /\ pc = "idle"
    /\ Len(valuemapping) < MaxMappings
    /\ \E connection_id \in {1, 3}, raw_value \in { <<"a", "b">>, <<"b", "b">> },
          canonical_id \in {1, 9}, confidence \in {NoInt, 9000} :
           LET payload == ValueMapping(connection_id, "t", "f", raw_value, canonical_id,
                                       "approved", confidence)
           IN IF \/ connection_id \notin sourceconnection
                 \/ \A n \in DOMAIN canonicalvalue : canonicalvalue[n].id # canonical_id
              THEN /\ reply' = HttpError("create_value_mapping", payload, 404)
                   /\ UNCHANGED valuemapping
              ELSE /\ valuemapping' = Append(valuemapping, payload)
                   /\ reply' = [op |-> "create_value_mapping", request |-> payload,
                                status |-> 201, body |-> payload]
    /\ UNCHANGED <<matcher_vars, parsed, service_vars, tables, sourceconnection, sourcefieldmapping,
                   sourcesample>>

\* A cell of text pandas read as NaN: left empty in a column that is there.
\* An empty cell of numbers is NoInt, an empty raw_value NoText.
NaN == "<nan>"

\* The rows of the uploaded files.  A row has the cells of one line; Unset is
\* a column the file does not have.
ImportRows ==
    { ValueMapping(1, "t", "f", <<"a", "b">>, 1, "approved", 9000),
      ValueMapping(1, "t", "f", <<"a", "b">>, 2, "rejected", NoInt),
      ValueMapping(NoInt, "t", "f", <<"b", "b">>, 2, Unset, 5000),
      ValueMapping(3, "t", "f", <<"b", "b">>, 1, "approved", NoInt),
      ValueMapping(1, "t", "f", <<"b", "b">>, 9, "approved", NoInt),
      ValueMapping(1, "t", NaN, <<"b", "b">>, 1, "approved", NoInt),
      ValueMapping(1, "t", "f", <<"b", "b">>, 1, NaN, NoInt),
      ValueMapping(1, "t", "f", <<"b", "b">>, 1, "archived", NoInt),
      ValueMapping(1, "t", "f", <<"b", "b">>, 1, "pending ", 15000) }

\* The files: one row, or two rows the second of which passes the checks
\* on its connection and its canonical value.
ImportFiles ==
    { <<row>> : row \in ImportRows }
        \cup (ImportRows \X { row \in ImportRows :
                                  /\ row.source_connection_id = 1
                                  /\ row.canonical_id = 2 \/ row.status = NaN })

\* import_value_mappings, line 1029: connection_id or the cell of the row.
ResolvedConnection(connection_id, row) ==
    IF connection_id # NoInt THEN connection_id ELSE row.source_connection_id

\* (row.get("status") or "approved").strip() for a cell that is a string or
\* is not there.
StatusOf(cell) ==
    IF cell = Unset THEN "approved"
    ELSE IF cell = "pending " THEN "pending"
    ELSE cell

\* import_value_mappings, lines 1030-1073: the checks that report a row in
\* errors and go on to the next row.
RowRejected(connection_id, row) ==
    \/ ResolvedConnection(connection_id, row) = NoInt
    \/ ResolvedConnection(connection_id, row) \notin sourceconnection
    \/ \A n \in DOMAIN canonicalvalue : canonicalvalue[n].id # row.canonical_id
    \/ row.raw_value = NoText \/ NaN \in {row.source_table, row.source_field}
    \/ row.status # NaN /\ StatusOf(row.status) \notin {"approved", "pending", "rejected"}
    \/ row.status # NaN /\ row.confidence # NoInt
                        /\ (row.confidence < 0 \/ row.confidence > Scale4)

\* The row reaches line 1058 with a NaN status: NaN is true, so the cell
\* itself is asked to strip() and the call raises AttributeError.
RowRaises(connection_id, row) ==
    /\ ResolvedConnection(connection_id, row) \in sourceconnection
    /\ \E n \in DOMAIN canonicalvalue : canonicalvalue[n].id = row.canonical_id
    /\ row.raw_value # NoText /\ NaN \notin {row.source_table, row.source_field}
    /\ row.status = NaN

\* import_value_mappings, lines 1075-1085: payload.
Payload(connection_id, row) ==
    ValueMapping(ResolvedConnection(connection_id, row), row.source_table,
                 row.source_field, row.raw_value, row.canonical_id,
                 StatusOf(row.status), row.confidence)

\* The key of a value mapping.
MappingKey(vm) ==
    <<vm.source_connection_id, vm.source_table, vm.source_field, vm.raw_value>>

\* The import adding a row for every payload.
Inserted(imported, payload) ==
    [imported EXCEPT !.mappings = Append(@, payload), !.created = @ + 1]

\* import_value_mappings, lines 1087-1109: the first mapping with the key of
\* the payload takes its values, or the payload becomes a new mapping.
Upserted(imported, payload) ==
    IF \E i \in DOMAIN imported.mappings :
           MappingKey(imported.mappings[i]) = MappingKey(payload)
    THEN [imported EXCEPT
             !.mappings[CHOOSE i \in DOMAIN imported.mappings :
                            /\ MappingKey(imported.mappings[i]) = MappingKey(payload)
                            /\ \A j \in 1..(i - 1) :
                                   MappingKey(imported.mappings[j]) # MappingKey(payload)]
                 = payload,
             !.updated = @ + 1]
    ELSE [imported EXCEPT !.mappings = Append(@, payload), !.created = @ + 1]

\* One turn of the loop; row_number is the line of the row in the file.
ImportedRow(imported, connection_id, row, row_number) ==
    IF imported.raised THEN imported
    ELSE IF RowRejected(connection_id, row)
    THEN [imported EXCEPT !.errors = Append(@, row_number)]
    ELSE IF RowRaises(connection_id, row)
    THEN [imported EXCEPT !.raised = TRUE]
    ELSE Upserted(imported, Payload(connection_id, row))

\* import_value_mappings, lines 1026-1109: the loop over the first n rows.
RECURSIVE Imported(_, _, _)
Imported(connection_id, rows, n) ==
    IF n = 0
    THEN [mappings |-> valuemapping, created |-> 0, updated |-> 0, errors |-> <<>>,
          raised |-> FALSE]
    ELSE ImportedRow(Imported(connection_id, rows, n - 1), connection_id, rows[n], n + 1)

\* The answer of the import and what it commits: nothing when a row raised.
ImportAnswers(request, imported) ==
    IF imported.raised
    THEN /\ reply' = HttpError("import_value_mappings", request, 500)
         /\ UNCHANGED valuemapping
    ELSE /\ Len(imported.mappings) <= MaxMappings
         /\ valuemapping' = imported.mappings
         /\ reply' = [op |-> "import_value_mappings", request |-> request,
                      status |-> 200,
                      body |-> [created |-> imported.created,
                                updated |-> imported.updated,
                                errors |-> imported.errors]]

\* POST /source/value-mappings/import: import_value_mappings
ImportValueMappings ==
    /\ pc = "idle"
    /\ \E connection_id \in {NoInt, 1}, rows \in ImportFiles :
           ImportAnswers([connection_id |-> connection_id, rows |-> rows],
                         Imported(connection_id, rows, Len(rows)))
    /\ UNCHANGED <<matcher_vars, parsed, service_vars, tables, sourceconnection, sourcefieldmapping,
                   sourcesample>>

\* A database with two connections, two mapped fields of connection 1, the
\* seeded library, and samples some of which share a key.
SourceInit ==
    /\ MatcherInit
    /\ parsed = <<>>
    /\ systemconfig = <<ConfigFrom(Settings)>>
    /\ dimensions = DefaultDimensions
    /\ canonicalvalue = DefaultCanonicalValues
    /\ rawvalue = <<>>
    /\ sourceconnection = {1, 2}
    /\ sourcefieldmapping = << SourceFieldMapping(1, "t", "f", "marital_status"),
                               SourceFieldMapping(1, "t", "g", "education") >>
    /\ sourcesample \in
           { << SourceSample(1, 1, "t", "f", Unset, <<"a", "b">>, 4, 5),
                SourceSample(2, 1, "t", "f", "marital_status", <<"a", "b">>, 3, 9),
                SourceSample(3, 1, "t", "f", Unset, <<"b", "b">>, 2, 7) >>,
             << SourceSample(1, 1, "t", "f", "", <<"b", "b">>, 1, 9),
                SourceSample(2, 1, "t", "g", "education", <<"b", "b">>, 2, 3),
                SourceSample(3, 2, "u", "f", "marital_status", <<"b", "b">>, 5, 1) >>,
             << SourceSample(1, 1, "t", "f", "marital_status", <<"b", "b">>, 3, 1),
                SourceSample(2, 1, "t", "f", "education", <<"b", "b">>, 5, 2),
                SourceSample(3, 1, "u", "f", Unset, <<"a", "b">>, 5, 2) >> }
    /\ valuemapping = <<>>
    /\ reply = NoReply
    /\ engine = "none"
    /\ service = NoService

SourceNext ==
    \/ ListSamples
    \/ ComputeMatchStatistics
    \/ ListUnmatchedValues
    \/ CreateValueMapping
    \/ ImportValueMappings

SourceSpec == SourceInit /\ [][SourceNext]_vars

\* ------------------------- deleting canonical values, mappings, connections

\* A ValueMapping or a RawValue row points at the canonical value.
Referenced(canonical_id) ==
    \/ \E n \in DOMAIN valuemapping : valuemapping[n].canonical_id = canonical_id
    \/ \E n \in DOMAIN rawvalue : rawvalue[n].proposed_canonical_id = canonical_id

\* session.get(CanonicalValue, canonical_id) finds a row.
CanonicalExists(canonical_id) ==
    \E n \in DOMAIN canonicalvalue : canonicalvalue[n].id = canonical_id

\* session.delete(canonical): the table without the row.
WithoutCanonical(rows, canonical_id) == SelectSeq(rows, LAMBDA row : row.id # canonical_id)

\* DELETE /reference/canonical/{canonical_id}: delete_canonical_value.  The
\* handler removes the relation links of the value (a table that is not
\* modelled) and the value itself, and nothing of valuemapping or rawvalue.
\* Their foreign keys decide the commit: a database that enforces them
\* raises IntegrityError when a row points at the value (no handler catches
\* it: 500, nothing written); SQLite enforces none unless PRAGMA
\* foreign_keys is set, which the application never does, and deletes.
DeleteCanonicalValue ==
    /\ pc = "idle"
    /\ \E canonical_id \in {1, 2, 9}, enforced \in BOOLEAN :
           LET request == [canonical_id |-> canonical_id]
           IN  IF ~CanonicalExists(canonical_id)
               THEN /\ reply' = HttpError("delete_canonical_value", request, 404)
                    /\ UNCHANGED canonicalvalue
               ELSE IF enforced /\ Referenced(canonical_id)
               THEN /\ reply' = HttpError("delete_canonical_value", request, 500)
                    /\ UNCHANGED canonicalvalue
               ELSE /\ canonicalvalue' = WithoutCanonical(canonicalvalue, canonical_id)
                    /\ reply' = HttpError("delete_canonical_value", request, 204)
    /\ UNCHANGED <<matcher_vars, parsed, service_vars, systemconfig, dimensions, rawvalue,
                   source_tables>>

\* session.get(ValueMapping, mapping_id) finds a row of the connection; a
\* row's identifier is its place in the table.
MappingFound(connection_id, mapping_id) ==
    /\ mapping_id \in DOMAIN valuemapping
    /\ valuemapping[mapping_id].source_connection_id = connection_id

\* PUT /source/connections/{connection_id}/value-mappings/{mapping_id}:
\* update_value_mapping with a payload that sets canonical_id, or no field
\* (NoInt).
UpdateValueMapping ==
    /\ pc = "idle"
    /\ \E connection_id \in {1, 3}, mapping_id \in 1..MaxMappings, canonical_id \in {NoInt, 2, 9} :
           LET request == [connection_id |-> connection_id, mapping_id |-> mapping_id,
                           canonical_id |-> canonical_id]
           IN  IF \/ connection_id \notin sourceconnection
                  \/ ~MappingFound(connection_id, mapping_id)
                  \/ canonical_id # NoInt /\ ~CanonicalExists(canonical_id)
               THEN /\ reply' = HttpError("update_value_mapping", request, 404)
                    /\ UNCHANGED valuemapping
               ELSE /\ valuemapping' =
                          [valuemapping EXCEPT ![mapping_id].canonical_id =
                               IF canonical_id = NoInt THEN @ ELSE canonical_id]
                    /\ reply' = [op |-> "update_value_mapping", request |-> request,
                                 status |-> 200, body |-> valuemapping'[mapping_id]]
    /\ UNCHANGED <<matcher_vars, parsed, service_vars, tables, sourceconnection,
                   sourcefieldmapping, sourcesample>>

\* session.delete(mapping): the table without the row at that place.
WithoutMapping(rows, mapping_id) ==
    SubSeq(rows, 1, mapping_id - 1) \o SubSeq(rows, mapping_id + 1, Len(rows))

\* DELETE /source/connections/{connection_id}/value-mappings/{mapping_id}:
\* delete_value_mapping
DeleteValueMapping ==
    /\ pc = "idle"
    /\ \E connection_id \in {1, 3}, mapping_id \in 1..MaxMappings :
           LET request == [connection_id |-> connection_id, mapping_id |-> mapping_id]
           IN  IF \/ connection_id \notin sourceconnection
                  \/ ~MappingFound(connection_id, mapping_id)
               THEN /\ reply' = HttpError("delete_value_mapping", request, 404)
                    /\ UNCHANGED valuemapping
               ELSE /\ valuemapping' = WithoutMapping(valuemapping, mapping_id)
                    /\ reply' = HttpError("delete_value_mapping", request, 204)
    /\ UNCHANGED <<matcher_vars, parsed, service_vars, tables, sourceconnection,
                   sourcefieldmapping, sourcesample>>

\* A delete that also takes the rows of the connections created later.
WithoutConnectionOnwards(rows, connection_id) ==
    SelectSeq(rows, LAMBDA row : row.source_connection_id < connection_id)

\* delete(Table).where(Table.source_connection_id == connection_id)
WithoutConnection(rows, connection_id) ==
    SelectSeq(rows, LAMBDA row : row.source_connection_id # connection_id)

\* DELETE /source/connections/{connection_id}: delete_connection
DeleteConnection ==
    /\ pc = "idle"
    /\ \E connection_id \in {1, 2, 3} :
           LET request == [connection_id |-> connection_id]
           IN  IF connection_id \notin sourceconnection
               THEN /\ reply' = HttpError("delete_connection", request, 404)
                    /\ UNCHANGED source_tables
               ELSE /\ sourcefieldmapping' = WithoutConnection(sourcefieldmapping, connection_id)
                    /\ sourcesample' = WithoutConnection(sourcesample, connection_id)
                    /\ valuemapping' = WithoutConnection(valuemapping, connection_id)
                    /\ sourceconnection' = sourceconnection \ {connection_id}
                    /\ reply' = HttpError("delete_connection", request, 204)
    /\ UNCHANGED <<matcher_vars, parsed, service_vars, tables>>

\* A database with two connections that both have samples, a field mapping
\* and (the second) a value mapping, the seeded library, and one raw value
\* with a proposed canonical value.
LifecycleInit ==
    /\ MatcherInit
    /\ parsed = <<>>
    /\ systemconfig = <<ConfigFrom(Settings)>>
    /\ dimensions = DefaultDimensions
    /\ canonicalvalue = DefaultCanonicalValues
    /\ rawvalue = <<RawValue("marital_status", <<"b", "a">>, <<[canonical_id |-> 2]>>)>>
    /\ sourceconnection = {1, 2}
    /\ sourcefieldmapping = << SourceFieldMapping(1, "t", "f", "marital_status"),
                               SourceFieldMapping(2, "u", "f", "marital_status") >>
    /\ sourcesample = << SourceSample(1, 1, "t", "f", "", <<"b", "b">>, 1, 9),
                         SourceSample(2, 2, "u", "f", "marital_status", <<"b", "b">>, 5, 1) >>
    /\ valuemapping = <<ValueMapping(2, "u", "f", <<"b", "b">>, 2, "approved", NoInt)>>
    /\ reply = NoReply
    /\ engine = "none"
    /\ service = NoService

LifecycleNext ==
    \/ CreateValueMapping
    \/ UpdateValueMapping
    \/ DeleteValueMapping
    \/ ImportValueMappings
    \/ DeleteCanonicalValue
    \/ DeleteConnection

LifecycleSpec == LifecycleInit /\ [][LifecycleNext]_vars

\* --------------------------------------------------- the connection service

\* The messages of the errors the database driver raises.
Messages == {"DNS failure", "connect failed"}

\* What inspector.get_schema_names() may return.
SchemaLists == { <<>>, <<"public">>, <<"public", "information_schema">> }

\* What get_table_names and get_view_names may return for a schema.
NameLists == { <<>>, <<"x">>, <<"x", "y">> }

\* No call has been made.
ServiceInit ==
    /\ MatcherInit
    /\ StoreInit

\* An error leaving the function.
Raising(type, message) == [type |-> type, message |-> message]

\* list_tables, lines 183-189, and list_fields, lines 238-244: _create_engine.
\* It raises SourceConnectionServiceError for options or a database type it
\* does not accept; any other exception is wrapped in one.
\* The schema kept is the one the call goes on with: the schema argument of
\* list_fields when it is given, the schema option of the connection otherwise.
CreateEngine(op, schema_argument) ==
    /\ service.at = "idle"
    /\ \E schema \in {Unset, "s"} :
           \/ /\ engine' = "created"
              /\ service' = [NoService EXCEPT
                                 !.op = op, !.at = "inspect",
                                 !.schema = IF schema_argument # Unset
                                            THEN schema_argument ELSE schema]
           \/ /\ \E message \in {"Options must be valid JSON", "bad url"} :
                     service' = [NoService EXCEPT
                                    !.op = op, !.at = "raised",
                                    !.error = Raising("SourceConnectionServiceError",
                                                      message)]
              /\ engine' = "none"
    /\ UNCHANGED <<matcher_vars, parsed, tables, source_tables, reply>>

ListTables == CreateEngine("list_tables", Unset)

ListFields == \E schema \in {Unset, "sales"} : CreateEngine("list_fields", schema)

\* list_tables, line 191, and list_fields, line 246: inspect(engine) stands
\* before the try statement, so what it raises leaves the function as it is
\* and the finally clause that disposes the engine is never entered.
InspectFails(message) ==
    /\ engine' = engine
    /\ service' = [service EXCEPT !.at = "raised", !.failure = message,
                                  !.error = Raising("OperationalError", message)]

\* inspector = inspect(engine)
Inspect ==
    /\ service.at = "inspect"
    /\ \/ /\ service' = [service EXCEPT
                            !.at = IF service.op = "list_tables" THEN "schemas"
                                   ELSE "columns"]
          /\ engine' = engine
       \/ \E message \in Messages : InspectFails(message)
    /\ UNCHANGED <<matcher_vars, parsed, tables, source_tables, reply>>

\* list_tables, lines 194-201: the schemas to look into.  An error of
\* get_schema_names other than NotImplementedError is caught by no except
\* clause; the finally clause disposes the engine.
GetSchemaNames ==
    /\ service.at = "schemas"
    /\ IF service.schema # Unset
       THEN /\ service' = [service EXCEPT !.at = "tables", !.schemas = <<service.schema>>]
            /\ engine' = engine
       ELSE \/ /\ \E schemas \in SchemaLists \cup {<<Unset>>} :
                      service' = [service EXCEPT !.at = "tables", !.schemas = schemas]
               /\ engine' = engine
            \/ /\ \E message \in Messages :
                      service' = [service EXCEPT
                                     !.at = "raised", !.failure = message,
                                     !.error = Raising("OperationalError", message)]
               /\ engine' = "disposed"
    /\ UNCHANGED <<matcher_vars, parsed, tables, source_tables, reply>>

\* _should_skip_table for the dialect of the modelled engine, postgres.
ShouldSkipTable(schema, name) == schema \in {"pg_catalog", "information_schema"}

\* list_tables, lines 211-219: the records of one schema.
TableRecords(schema, table_names, view_names) ==
    { [name |-> name, schema |-> schema, type |-> "table"] :
          name \in { n \in Range(table_names) : ~ShouldSkipTable(schema, n) } }
        \cup { [name |-> name, schema |-> schema, type |-> "view"] :
                   name \in { n \in Range(view_names) : ~ShouldSkipTable(schema, n) } }

\* list_tables, lines 203-232: one turn of the loop over the schemas, or the
\* return after the last; the records are kept once each, their order is not
\* modelled.  The finally clause disposes the engine.
GetTableNames ==
    /\ service.at = "tables"
    /\ IF service.schemas = <<>>
       THEN /\ service' = [service EXCEPT !.at = "returned"]
            /\ engine' = "disposed"
       ELSE \/ /\ \E table_names \in NameLists, view_names \in NameLists :
                      service' = [service EXCEPT
                                     !.schemas = Tail(@),
                                     !.results = @ \cup TableRecords(service.schemas[1],
                                                                     table_names,
                                                                     view_names)]
               /\ engine' = engine
            \/ /\ \E message \in Messages :
                      service' = [service EXCEPT
                                     !.at = "raised", !.failure = message,
                                     !.error = Raising("SourceConnectionServiceError",
                                                       message)]
               /\ engine' = "disposed"
    /\ UNCHANGED <<matcher_vars, parsed, tables, source_tables, reply>>

\* list_fields, lines 249-276: get_columns, the engine disposed in the
\* finally clause, then the fields built from the columns.
GetColumns ==
    /\ service.at = "columns"
    /\ \/ \E columns \in NameLists :
              service' = [service EXCEPT
                             !.at = "returned",
                             !.results = { [name |-> name, nullable |-> TRUE] :
                                               name \in Range(columns) }]
       \/ \E message \in Messages :
              service' = [service EXCEPT
                             !.at = "raised", !.failure = message,
                             !.error = Raising("SourceConnectionServiceError", message)]
    /\ engine' = "disposed"
    /\ UNCHANGED <<matcher_vars, parsed, tables, source_tables, reply>>

ServiceNext ==
    \/ ListTables
    \/ ListFields
    \/ Inspect
    \/ GetSchemaNames
    \/ GetTableNames
    \/ GetColumns

ServiceSpec == ServiceInit /\ [][ServiceNext]_vars

\* ------------------------------------------------------------ the properties

\* rank has returned to its caller.
Returned == pc = "done"

\* The content the client took from the response it holds.
ResponseContent ==
    IF LlmMode(config) = "offline" THEN OllamaContent(response.data)
    ELSE OpenaiContent(response.data).v

\* The ranking entries the client parsed from the response it holds.
ParsedRankings ==
    IF response.kind = "ok" /\ ResponseContent.t = "str"
    THEN ParseLlmJson(ResponseContent.s) ELSE <<>>

\* The most entries rank may return under the configuration: top_k when it is
\* a positive integer, DefaultTopK when it is zero or unset, 1 when negative.
Limit ==
    IF config.top_k \in {NoInt, 0} THEN DefaultTopK
    ELSE IF config.top_k > 1 THEN config.top_k ELSE 1

\* C1: rank never raises to its caller, whatever the text, the candidates,
\* the configuration and the outcome of the external ranking call.
C1_RankNeverRaises == raised = "none" /\ pc # "raised"

C3_SortedByScoreDescending ==
    Returned =>
        \A i \in 1..(Len(result) - 1) : result[i].score >= result[i + 1].score

\* C3 witness: the vector scorer returned the second candidate ahead of the
\* first, which scored lower.
C3_SecondCandidateFirst ==
    /\ Returned
    /\ scores # <<>>
    /\ Len(canonical_values) = 2
    /\ Len(result) = 2
    /\ scores[1] < scores[2]
    /\ result[1].canonical_label = canonical_values[2].canonical_label
    /\ result[1].score > result[2].score

\* The entry emitted for candidate j with the score score4 is in ms.
Emitted(ms, j, score4) ==
    \E i \in DOMAIN ms : ms[i] = MatchCandidate(canonical_values[j], score4)

\* C4: every emitted score lies in [0.0, 1.0], and an out-of-range raw value
\* is clamped, not dropped: where truncation cuts nothing, a raw similarity or
\* LLM-supplied score above 1 is emitted as 1.0 and one below 0 as 0.0.
C4_ScoresClampedNotDropped ==
    /\ Returned => \A i \in DOMAIN result : result[i].score \in 0..Scale4
    /\ (Returned /\ scores # <<>> /\ Len(canonical_values) <= Limit) =>
          \A j \in DOMAIN canonical_values :
             /\ scores[j] > RawScale => Emitted(result, j, Scale4)
             /\ (scores[j] < 0 /\ ~IsExactMatch(canonical_values[j], raw_text))
                    => Emitted(result, j, 0)
    /\ (pc = "llm_return" /\ Len(ParsedRankings) <= Limit) =>
          \A r \in DOMAIN ParsedRankings :
             \A j \in DOMAIN canonical_values :
                (/\ Get(ParsedRankings[r], <<"id">>) = JInt(canonical_values[j].id)
                 /\ Get(ParsedRankings[r], <<"score">>).t = "num")
                => /\ Get(ParsedRankings[r], <<"score">>).n > RawScale
                         => Emitted(llm_rankings, j, Scale4)
                   /\ Get(ParsedRankings[r], <<"score">>).n < 0
                         => Emitted(llm_rankings, j, 0)

\* C4 witness: similarities of 1.3 and -0.2 came back and both candidates are
\* in the result, with the scores 1.0 and 0.0.
C4_BothClamped ==
    /\ Returned
    /\ Len(canonical_values) = 2
    /\ scores = <<130000, -20000>>
    /\ ~IsExactMatch(canonical_values[1], raw_text)
    /\ ~IsExactMatch(canonical_values[2], raw_text)
    /\ Len(result) = 2
    /\ result[1].score = Scale4
    /\ result[2].score = 0


\* The call's input is degenerate: a blank text or no candidate.
Degenerate == Strip(raw_text) = <<>> \/ canonical_values = <<>>

\* C5: on a blank text or an empty candidate list rank returns [] and, all
\* along the call, attempts no vectorization, runs no lexical scoring and
\* sends no request to the external ranking service.
C5_DegenerateInputYieldsEmpty ==
    (pc # "idle" /\ Degenerate) =>
        /\ requests = <<>>
        /\ "vector" \notin invoked
        /\ "lexical" \notin invoked
        /\ scores = <<>>
        /\ pc \notin {"openai", "ollama", "lexical", "raised"}
        /\ Returned => result = <<>>

\* C5 witness: backend llm, a text to match and no candidate; rank has
\* entered the client and returned.
C5_LlmWithoutCandidates ==
    /\ Returned
    /\ config.matcher_backend = "llm"
    /\ "llm" \in invoked
    /\ Strip(raw_text) # <<>>
    /\ canonical_values = <<>>

\* C6: with backend llm, when the external ranking client returned one or
\* more results rank returns exactly that list, ordered by the supplied
\* scores, and neither the vector nor the lexical scorer ran in the call.
C6_LlmResultsReturnedDirectly ==
    (pc \in {"done", "embeddings", "lexical"} /\ "llm" \in invoked /\ llm_rankings # <<>>) =>
        /\ Returned
        /\ result = llm_rankings
        /\ invoked = {"llm"}
        /\ scores = <<>>
        /\ \A i \in 1..(Len(result) - 1) : result[i].score >= result[i + 1].score

\* C6 witness: the offline client was asked once and ranked candidate 2 at
\* 0.91 and candidate 1 at 0.33; rank returned the two in that order.
C6_OfflineRankingReturned ==
    /\ Returned
    /\ LlmMode(config) = "offline"
    /\ Len(requests) = 1
    /\ Len(result) = 2
    /\ result = llm_rankings
    /\ result[1].canonical_id = 2 /\ result[1].score = 9100
    /\ result[2].canonical_id = 1 /\ result[2].score = 3300

\* C7: with backend llm, when the external ranking client yielded nothing
\* rank returns exactly what the embedding path returns for the same text,
\* candidates and top_k.
C7_LlmFallbackEqualsEmbeddingPath ==
    (Returned /\ config.matcher_backend = "llm" /\ Strip(raw_text) # <<>>
        /\ llm_rankings = <<>>) =>
        /\ "llm" \in invoked
        /\ canonical_values # <<>> => "vector" \in invoked
        /\ \/ canonical_values = <<>>
           \/ VectorizationFails(raw_text, canonical_values)
           \/ DOMAIN scores = DOMAIN canonical_values
        /\ result = EmbeddingPath(raw_text, canonical_values, config.top_k, scores)

\* C7 witness: a request went out, the client yielded nothing, and the vector
\* scorer's matches came back.
C7_FellBackAfterRequest ==
    /\ Returned
    /\ config.matcher_backend = "llm"
    /\ llm_rankings = <<>>
    /\ requests # <<>>
    /\ scores # <<>>
    /\ result # <<>>

\* C8: when vectorization fails the failure does not reach the caller: rank
\* returns exactly what the lexical scorer returns for the same text,
\* candidates and top_k.
C8_VectorizationFailureFallsBackToLexical ==
    ("vector" \in invoked /\ VectorizationFails(raw_text, canonical_values)) =>
        /\ pc # "raised"
        /\ raised = "none"
        /\ scores = <<>>
        /\ Returned =>
              /\ "lexical" \in invoked
              /\ result = RankWithLexical(raw_text, canonical_values, config.top_k)

\* C8 witness: no sentence held a term, and the lexical scorer's matches
\* came back.
C8_LexicalMatchesReturned ==
    /\ Returned
    /\ VectorizationFails(raw_text, canonical_values)
    /\ invoked = {"vector", "lexical"}
    /\ result # <<>>

\* Candidate j's label, trimmed and case-folded, is the query trimmed and
\* case-folded.
LabelIsQuery(j) ==
    Casefold(Strip(canonical_values[j].canonical_label)) = Casefold(Strip(raw_text))

\* The entry m of a result carries a label that is the query.
IsExactEntry(m) == Casefold(Strip(m.canonical_label)) = Casefold(Strip(raw_text))

\* Exactly one candidate's label is the query.
OneExactMatch == Cardinality({j \in DOMAIN canonical_values : LabelIsQuery(j)}) = 1

\* C9 as stated: for every backend, when exactly one candidate's label is the
\* query, that candidate is in the result, has score 1.0 and is first.
C9_ExactMatchFirstForEveryBackend ==
    (Returned /\ Strip(raw_text) # <<>> /\ OneExactMatch) =>
        /\ result # <<>>
        /\ IsExactEntry(result[1])
        /\ result[1].score = Scale4

\* C9 amended: when the vector or the lexical scorer produced the result and
\* exactly one candidate's label is the query, that candidate's score is
\* exactly 1.0 and only entries scored 1.0 precede it; it is in the result
\* unless top_k entries scored 1.0 fill the result, or the lexical scorer
\* found no token in the query.
C9_ExactMatchScoredOne ==
    (Returned /\ "vector" \in invoked /\ OneExactMatch) =>
        /\ \A i \in DOMAIN result :
              IsExactEntry(result[i]) =>
                 /\ result[i].score = Scale4
                 /\ \A k \in 1..(i - 1) : result[k].score = Scale4
        /\ \/ \E i \in DOMAIN result : IsExactEntry(result[i])
           \/ Len(result) = Limit /\ \A i \in DOMAIN result : result[i].score = Scale4
           \/ "lexical" \in invoked /\ Tokenize(raw_text) = {}

\* C9 witness: the second candidate's label is the query in another case, both
\* similarities came back below 0, and it is first with score 1.0.
C9_OverrideLiftsSecondCandidate ==
    /\ Returned
    /\ OneExactMatch
    /\ Len(canonical_values) = 2
    /\ LabelIsQuery(2)
    /\ scores = <<-20000, -20000>>
    /\ canonical_values[2].canonical_label # raw_text
    /\ Len(result) = 2
    /\ IsExactEntry(result[1])
    /\ result[1].score = Scale4
    /\ result[2].score < Scale4

\* The score the lexical scorer gave: NoInt when it emitted no entry.
LexicalScoreOf(ms) == IF ms = <<>> THEN NoInt ELSE ms[1].score

\* The lexical scorer on the swapped pair: the candidate's sentence as the
\* query, against a candidate whose sentence is the query.
Swapped ==
    RankWithLexical(CanonicalAsSentence(canonical_values[1]),
                    <<Canonical(canonical_values[1].id, raw_text, NoText)>>,
                    config.top_k)

ArrayValue(body) == JsonLoads(body).v.items

\* The parser has returned for this content.
ParsedContent(content) == pc = "parsed" /\ response.data.s = content

\* The trimmed content begins with a fence marker and the array begins on
\* that first line.
ArrayOnFenceLine(prose) ==
    StartsWithFence(LStrip(prose[1])) /\ Find(LStrip(prose[1]), "\n") = 0

OwnBase(cfg) ==
    IF cfg.llm_api_base \in {NoText, <<>>} THEN DefaultOpenaiBase ELSE cfg.llm_api_base

\* C12: every request a rank call sends to the hosted service carries the
\* credential and the base URL of that call's own config (the default base
\* when the config has no override), whatever calls ran before it.
C12_RequestsUseOwnConfig ==
    \A n \in DOMAIN requests :
        requests[n].transport = "openai"
            => /\ requests[n].key = config.llm_api_key
               /\ requests[n].base = OwnBase(config)

\* The request of this call failed: the transport, the status, the body or
\* the hosted API raised inside the client's try block.
AttemptFailed ==
    /\ pc = "llm_return"
    /\ response.kind \in {"transport_error", "status_error", "body_not_json", "api_error"}

\* C13: a rank call sends at most one request to the ranking service; after
\* a failed attempt its next step is the embedding path and no further
\* request is sent.
C13_OneRequestThenEmbeddingFallback ==
    [][ /\ Len(requests') <= 1
        /\ AttemptFailed => pc' = "embeddings" /\ requests' = requests ]_vars

\* C13 witness: the one request of a call to the local endpoint has failed in
\* transport.
C13_LocalAttemptFailed ==
    /\ AttemptFailed
    /\ response.kind = "transport_error"
    /\ Len(requests) = 1
    /\ requests[1].transport = "ollama"

\* propose_match has answered with a MatchResponse.
ProposeAnswered == reply.op = "propose_match" /\ reply.status = 200

\* C14: a propose_match call that answers persists exactly one RawValue; it
\* is "suggested" with the identifier of rank's top candidate when that
\* candidate scores at least config.match_threshold, and "pending" without
\* an identifier otherwise; every match in the answer scores at least the
\* threshold.  A call that raises persists nothing.
C14_ProposePersistsOneRawValue ==
    [][ /\ reply'.op = "propose_match" /\ reply'.status = 200
           => /\ Len(rawvalue') = Len(rawvalue) + 1
              /\ SubSeq(rawvalue', 1, Len(rawvalue)) = rawvalue
              /\ IF result' # <<>> /\ result'[1].score >= config'.match_threshold
                 THEN /\ rawvalue'[Len(rawvalue')].status = "suggested"
                      /\ rawvalue'[Len(rawvalue')].proposed_canonical_id
                             = result'[1].canonical_id
                 ELSE /\ rawvalue'[Len(rawvalue')].status = "pending"
                      /\ rawvalue'[Len(rawvalue')].proposed_canonical_id = NoInt
              /\ \A n \in DOMAIN reply'.body.matches :
                     reply'.body.matches[n].score >= config'.match_threshold
        /\ reply'.op = "propose_match" /\ reply'.status # 200
           => rawvalue' = rawvalue ]_vars

\* C14 witness: the top candidate scored exactly the threshold and the row
\* persisted is "suggested" with its identifier, while rank returned a
\* second candidate that the answer leaves out.
C14_SuggestedAtThreshold ==
    /\ ProposeAnswered
    /\ result # <<>>
    /\ result[1].score = config.match_threshold
    /\ rawvalue[Len(rawvalue)].status = "suggested"
    /\ rawvalue[Len(rawvalue)].proposed_canonical_id = result[1].canonical_id
    /\ Len(result) = 2
    /\ Len(reply.body.matches) = 1

\* C15: when propose_match is called without a dimension, the default
\* dimension exists but has no canonical values and another dimension has
\* some, the answer reports a dimension that has values and holds a match
\* for a raw text equal to one of their labels.
C15_FallsBackWhenDefaultDimensionEmpty ==
    ( /\ reply.op = "propose_match"
      /\ reply.request.dimension = Unset
      /\ systemconfig # <<>>
      /\ systemconfig[1].default_dimension \in dimensions
      /\ CanonicalValuesOf(systemconfig[1].default_dimension) = <<>>
      /\ \E n \in DOMAIN canonicalvalue : canonicalvalue[n].dimension \in dimensions )
    => /\ reply.status = 200
       /\ CanonicalValuesOf(reply.body.dimension) # <<>>
       /\ \A n \in DOMAIN CanonicalValuesOf(reply.body.dimension) :
              CanonicalValuesOf(reply.body.dimension)[n].canonical_label
                  = reply.request.raw_text
              => \E k \in DOMAIN reply.body.matches :
                     reply.body.matches[k].canonical_label = reply.request.raw_text

\* C16: GET /api/config always answers 200 with one configuration row in the
\* table afterwards, created from the settings when there was none.
C16_ReadConfigCreatesMissingRow ==
    reply.op = "read_config"
    => /\ reply.status = 200
       /\ Len(systemconfig) = 1
       /\ reply.body = SystemConfigRead(systemconfig[1])

\* C17: an init_db run that follows an init_db run changes no table, and no
\* init_db run changes or repeats a canonical value that was there: the
\* defaults are added only to an empty table.
C17_InitDbIdempotent ==
    [][ /\ reply'.op = "init_db_again" => tables' = tables
        /\ reply'.op \in {"init_db", "init_db_again"}
           => /\ canonicalvalue # <<>> => canonicalvalue' = canonicalvalue
              /\ canonicalvalue = <<>> => canonicalvalue' = DefaultCanonicalValues
              /\ systemconfig # <<>> => systemconfig' = systemconfig
              /\ dimensions # {} => dimensions' = dimensions ]_vars

\* C17 witness: init_db has run again on the database it seeded itself.
C17_SeededThenRunAgain ==
    /\ reply.op = "init_db_again"
    /\ canonicalvalue = DefaultCanonicalValues
    /\ dimensions = DefaultDimensions
    /\ systemconfig = <<ConfigFrom(Settings)>>

\* The samples of a field mapping that carry a raw value.
SamplesWith(stat, connection_id, raw_value) ==
    SelectSeq(SamplesOf(connection_id, stat.source_table, stat.source_field),
              LAMBDA sample : sample.raw_value = raw_value)

\* An approved value mapping exists for the raw value under the connection,
\* table and field.
ApprovedMapping(connection_id, source_table, source_field, raw_value) ==
    \E n \in DOMAIN valuemapping :
        /\ MappingKey(valuemapping[n])
               = <<connection_id, source_table, source_field, raw_value>>
        /\ valuemapping[n].status = "approved"

RowsBehind(request, entry) ==
    SelectSeq(SamplesOf(request.connection_id, request.source_table,
                        request.source_field),
              LAMBDA sample : SampleKey(sample) = SampleKey(entry))

\* The latest last_seen_at of some rows is the given day.
LatestIs(rows, day) ==
    /\ \E n \in DOMAIN rows : rows[n].last_seen_at = day
    /\ \A n \in DOMAIN rows : rows[n].last_seen_at <= day

\* C19: an answer of list_samples has exactly one entry for every distinct
\* (source_table, source_field, raw_value) among the stored rows of the
\* connection that pass the filters of the request; the entry's
\* occurrence_count is the sum over the rows with that key, its last_seen_at
\* the latest of theirs, and its dimension a non-empty dimension of one of
\* them when any of them has one.
C19_OneEntryPerDistinctValue ==
    reply.op = "list_samples" /\ reply.status = 200
    => /\ \A i, j \in DOMAIN reply.body :
              SampleKey(reply.body[i]) = SampleKey(reply.body[j]) => i = j
       /\ { SampleKey(reply.body[i]) : i \in DOMAIN reply.body }
              = { SampleKey(sample) :
                      sample \in Range(SamplesOf(reply.request.connection_id,
                                                 reply.request.source_table,
                                                 reply.request.source_field)) }
       /\ \A i \in DOMAIN reply.body :
              /\ reply.body[i].occurrence_count
                     = SumCounts(RowsBehind(reply.request, reply.body[i]))
              /\ LatestIs(RowsBehind(reply.request, reply.body[i]),
                          reply.body[i].last_seen_at)
              /\ (\E sample \in Range(RowsBehind(reply.request, reply.body[i])) :
                      ~Falsy(sample.dimension))
                 => \E sample \in Range(RowsBehind(reply.request, reply.body[i])) :
                        /\ ~Falsy(sample.dimension)
                        /\ reply.body[i].dimension = sample.dimension

\* Witness for C19: three stored rows of connection 1, two of them for "ab"
\* with 4 and 3 occurrences, seen on days 5 and 9, one without a dimension,
\* are answered as two entries, "ab" first with 7 occurrences, day 9 and the
\* dimension of the row that has one.
C19_DuplicateRowsAggregated ==
    /\ reply.op = "list_samples" /\ reply.status = 200
    /\ reply.request.source_table = Unset /\ reply.request.source_field = Unset
    /\ Len(sourcesample) = 3
    /\ Len(reply.body) = 2
    /\ reply.body[1].raw_value = <<"a", "b">>
    /\ reply.body[1].occurrence_count = 7
    /\ reply.body[1].last_seen_at = 9
    /\ reply.body[1].dimension = "marital_status"
    /\ reply.body[2].occurrence_count = 2

\* The rows of an imported file that passed every check.
ValidRows(request) ==
    SelectSeq(request.rows, LAMBDA row : ~RowRejected(request.connection_id, row))

\* The number of mappings with a key.
Keyed(mappings, key) == Len(SelectSeq(mappings, LAMBDA vm : MappingKey(vm) = key))

\* The valid rows of a file that found no mapping with their key: the key
\* was not stored and no earlier row of the file had it.
NewRows(request, rows) ==
    { n \in DOMAIN rows :
          /\ Keyed(valuemapping, MappingKey(Payload(request.connection_id, rows[n]))) = 0
          /\ \A k \in 1..(n - 1) :
                 MappingKey(Payload(request.connection_id, rows[k]))
                     # MappingKey(Payload(request.connection_id, rows[n])) }

\* The import left a mapping with the key and the values of the row.
Holds(mappings, payload) ==
    \E i \in DOMAIN mappings :
        /\ MappingKey(mappings[i]) = MappingKey(payload)
        /\ mappings[i].canonical_id = payload.canonical_id
        /\ mappings[i].status = payload.status
        /\ mappings[i].confidence = payload.confidence

\* What an answered import of the valid rows did to the mappings.
UpsertedRows(request, rows, body) ==
    /\ body.created = Cardinality(NewRows(request, rows))
    /\ body.updated = Len(rows) - Cardinality(NewRows(request, rows))
    /\ Len(valuemapping') = Len(valuemapping) + Cardinality(NewRows(request, rows))
    /\ \A i \in DOMAIN valuemapping :
           MappingKey(valuemapping'[i]) = MappingKey(valuemapping[i])
    /\ \A n \in DOMAIN rows :
           /\ Keyed(valuemapping', MappingKey(Payload(request.connection_id, rows[n])))
                  = IF Keyed(valuemapping,
                             MappingKey(Payload(request.connection_id, rows[n]))) = 0
                    THEN 1
                    ELSE Keyed(valuemapping,
                               MappingKey(Payload(request.connection_id, rows[n])))
           /\ (\A k \in (n + 1)..Len(rows) :
                   MappingKey(Payload(request.connection_id, rows[k]))
                       # MappingKey(Payload(request.connection_id, rows[n])))
              => Holds(valuemapping', Payload(request.connection_id, rows[n]))

C21_DatabaseErrorsWrappedEngineDisposed ==
    /\ service.at = "raised" /\ service.failure # ""
       => /\ service.error = Raising("SourceConnectionServiceError", service.failure)
          /\ engine = "disposed"
    /\ service.at \in {"returned", "raised"} /\ engine # "none"
       => engine = "disposed"

\* C22: the hosted client, entered with a config that has no API key or no
\* model, returns the empty list at once: its step sends no request and raises
\* nothing.
C22_NoCredentialsNoRequest ==
    [][ /\ pc = "openai"
        /\ \/ config.llm_api_key \in {Unset, ""}
           \/ config.llm_model \in {Unset, ""}
        => /\ pc' = "llm_return"
           /\ llm_rankings' = <<>>
           /\ requests' = requests
           /\ raised' = "none" ]_vars

\* Witness for C22: the hosted client has returned for a config that has a
\* key and no model, and nothing was sent.
C22_ReturnedWithoutModel ==
    /\ pc = "llm_return"
    /\ config.matcher_backend = "llm" /\ LlmMode(config) = "online"
    /\ config.llm_api_key = "sk-1" /\ config.llm_model = Unset
    /\ llm_rankings = <<>> /\ requests = <<>> /\ raised = "none"

\* C23: result construction never raises on a malformed ranking entry, it
\* drops the entry: no TypeError leaves the client, whatever ids and scores
\* the response carries, and every result the client returned refers to a
\* supplied candidate.
C23_MalformedEntriesDropped ==
    /\ raised # "TypeError"
    /\ \A n \in DOMAIN llm_rankings :
           \E c \in DOMAIN canonical_values :
               canonical_values[c].id = llm_rankings[n].canonical_id

\* The value the claim speaks of: the direct parse of the text inside any
\* fence, else the parse of its part from the first "[" to the last "]".
ValueOf(text) ==
    IF JsonLoads(text).ok THEN JsonLoads(text)
    ELSE Snippet(text, Find(text, "["), RFind(text, "]"))

IsDict(item) == item.t = "obj"

\* What the claim says the value yields.
Classified(loaded) ==
    IF ~loaded.ok THEN <<>>
    ELSE IF loaded.v.t = "list" THEN SelectSeq(loaded.v.items, IsDict)
    ELSE IF loaded.v.t = "obj" /\ Get(loaded.v, <<"results">>).t = "list"
    THEN SelectSeq(Get(loaded.v, <<"results">>).items, IsDict)
    ELSE <<>>

\* C24: for every input string the response parser returns, without raising,
\* the object elements of a parsed list in their order, the same of the
\* "results" list of a parsed object, and an empty list for any other value
\* and for content that parses neither directly nor from its first "[" to
\* its last "]".
C24_ParsedValueClassified ==
    pc \in {"parsed", "raised"}
        => /\ raised = "none"
           /\ parsed = Classified(ValueOf(Unfence(Strip(response.data.s))))

\* The token set of a text as the claim words it: hyphens become spaces, the
\* text is cut at whitespace, every token is lower-cased.
TokenSet(text) == {Casefold(tok) : tok \in Range(Split(ReplaceHyphen(text)))}

\* |Q \cap C| / |Q \cup C| in units of 1/Scale4, 0.0 when the union is empty.
Jaccard(Q, C) ==
    IF Q \cup C = {} THEN 0
    ELSE RoundDiv(Cardinality(Q \cap C) * Scale4, Cardinality(Q \cup C))

QueryTokens == TokenSet(raw_text)

SentenceTokens == TokenSet(CanonicalAsSentence(canonical_values[1]))

UnroundedScore(text, canonical, sim) ==
    IF IsExactMatch(canonical, text) THEN RawScale ELSE Clamp(sim)

\* The candidates with their unrounded scores, in the order supplied.
Unrounded(text, cands, sims) ==
    [i \in DOMAIN cands |-> MatchCandidate(cands[i], UnroundedScore(text, cands[i], sims[i]))]

\* round(score, 4) of every entry of a list.
Rounded(ms) == [i \in DOMAIN ms |-> [ms[i] EXCEPT !.score = Round4(ms[i].score)]]

\* Sort on the unrounded score, truncate, round last.
RoundedLast(text, cands, top_k, sims) ==
    Rounded(Truncate(SortDesc(Unrounded(text, cands, sims)), EffectiveTopK(top_k)))

\* The vector scorer produced the result of this call.
FromVectorScorer == Returned /\ "vector" \in invoked /\ "lexical" \notin invoked

\* C26: the vector scorer's output equals the candidates sorted by clamped,
\* exact-match-overridden unrounded score descending, cut to max(1, top_k)
\* and rounded to 4 decimals afterwards, so that a candidate of lower
\* unrounded score is never ranked above, nor kept instead of, a higher one.
C26_SortedOnUnroundedScore ==
    FromVectorScorer => result = RoundedLast(raw_text, canonical_values, config.top_k, scores)

\* C27: in the vector scorer and in the lexical scorer every emitted
\* candidate whose label, trimmed and case-folded, equals the trimmed and
\* case-folded query has score exactly 1.0, whatever its computed similarity.
C27_EmittedExactMatchScoredOne ==
    (Returned /\ "vector" \in invoked) =>
        \A n \in DOMAIN result : IsExactEntry(result[n]) => result[n].score = Scale4

\* C27 witness: the only candidate's label is the query in another case, the
\* vector scorer computed a similarity below 0 (clamped to 0) for it and
\* emitted it with score 1.0.
C27_ExactMatchOfNoSimilarity ==
    /\ FromVectorScorer
    /\ Len(canonical_values) = 1
    /\ LabelIsQuery(1)
    /\ canonical_values[1].canonical_label # raw_text
    /\ scores = <<-20000>>
    /\ Len(result) = 1
    /\ result[1].score = Scale4

\* C28: every list rank returns holds each candidate at most once: no two
\* of its entries share a canonical identifier, whatever the backend and
\* whatever the ranking service answered.
C28_NoCandidateTwice ==
    Returned =>
        \A i, j \in DOMAIN result :
            i # j => result[i].canonical_id # result[j].canonical_id

\* C29: every stored ValueMapping.canonical_id and every RawValue
\* proposed_canonical_id that is set refers to a canonical value that still
\* exists, after any sequence of creations, updates, imports and deletions.
C29_ReferencesExist ==
    /\ \A n \in DOMAIN valuemapping : CanonicalExists(valuemapping[n].canonical_id)
    /\ \A n \in DOMAIN rawvalue :
           rawvalue[n].proposed_canonical_id # NoInt
               => CanonicalExists(rawvalue[n].proposed_canonical_id)

\* The rows of a table that belong to the connection, and the others.
RowsOf(rows, id) == SelectSeq(rows, LAMBDA row : row.source_connection_id = id)

RowsOfOthers(rows, id) == SelectSeq(rows, LAMBDA row : row.source_connection_id # id)

\* The step answered a delete_connection request.
DeleteConnectionAnswered == reply'.op = "delete_connection"

\* The connection the request names.
Deleted == reply'.request.connection_id

\* C30: delete_connection answers 204 exactly when the connection exists,
\* and then no SourceFieldMapping, SourceSample or ValueMapping row of that
\* connection remains while the rows of every other connection, the other
\* connections, the canonical values and the system configuration are
\* unchanged; it answers 404 when the connection does not exist and changes
\* nothing.
C30_DeleteConnectionCascadesOnly ==
    [][ DeleteConnectionAnswered =>
          /\ UNCHANGED tables
          /\ reply'.status = IF Deleted \in sourceconnection THEN 204 ELSE 404
          /\ reply'.status = 204 =>
                /\ sourceconnection' = sourceconnection \ {Deleted}
                /\ RowsOf(sourcefieldmapping', Deleted) = <<>>
                /\ RowsOf(sourcesample', Deleted) = <<>>
                /\ RowsOf(valuemapping', Deleted) = <<>>
                /\ RowsOfOthers(sourcefieldmapping', Deleted)
                       = RowsOfOthers(sourcefieldmapping, Deleted)
                /\ RowsOfOthers(sourcesample', Deleted) = RowsOfOthers(sourcesample, Deleted)
                /\ RowsOfOthers(valuemapping', Deleted) = RowsOfOthers(valuemapping, Deleted)
          /\ reply'.status = 404 => UNCHANGED source_tables ]_vars

\* C30 witness: connection 1 was deleted with its field mapping and its
\* sample; connection 2 still has its field mapping, its sample and its
\* value mapping, and the library and the configuration are as seeded.
C30_FirstConnectionDeletedSecondKept ==
    /\ reply.op = "delete_connection" /\ reply.status = 204
    /\ reply.request.connection_id = 1
    /\ sourceconnection = {2}
    /\ sourcefieldmapping = <<SourceFieldMapping(2, "u", "f", "marital_status")>>
    /\ Len(sourcesample) = 1 /\ sourcesample[1].source_connection_id = 2
    /\ valuemapping = <<ValueMapping(2, "u", "f", <<"b", "b">>, 2, "approved", NoInt)>>
    /\ canonicalvalue = DefaultCanonicalValues
    /\ systemconfig = <<ConfigFrom(Settings)>>

====
